---- MODULE Spec2Model ----
(***************************************************************************)
(* Certificate Protection System (RBAC): the permission table, the         *)
(* authenticate/authorize middleware, the account lockout guard, the user  *)
(* management handlers, the certificate lifecycle (create, sign, revoke,   *)
(* verify, auto-expire) and the audit recorder, as one state machine over  *)
(* the document store.                                                     *)
(*                                                                         *)
(* The clock `now` counts hours.  Object ids are small naturals; 0 stands  *)
(* for "no user" / "no certificate".                                       *)
(***************************************************************************)
EXTENDS Integers, Sequences, FiniteSets, TLC

(***************************************************************************)
(* Bounds of the model                                                     *)
(***************************************************************************)
MaxUsers == 3
MaxCerts == 2
MaxTime == 2
MaxRequests == 2
MaxCertRequests == 3
MaxLoginRequests == 7
MaxLoginTime == 4
MaxUserRequests == 2

UserIds == 1..MaxUsers
CertIds == 1..MaxCerts
Emails == 1..MaxUsers

\* an absent Date field (lockUntil, expiresAt, revokedAt, lastLogin)
NoTime == -1

(***************************************************************************)
(* config/rbac.js                                                          *)
(***************************************************************************)
ROLES == {"super_admin", "admin", "issuer", "verifier", "holder"}

PERMISSIONS ==
  << "certificate:create", "certificate:read", "certificate:read:own",
     "certificate:update", "certificate:delete", "certificate:revoke",
     "certificate:verify", "certificate:export", "certificate:sign",
     "user:create", "user:read", "user:read:own", "user:update",
     "user:update:own", "user:delete", "user:assign_role",
     "role:create", "role:read", "role:update", "role:delete",
     "audit:read", "audit:export",
     "system:config", "system:backup" >>

Range(s) == {s[i] : i \in 1..Len(s)}

ROLE_PERMISSIONS ==
  [ super_admin |-> PERMISSIONS,
    admin |-> << "certificate:create", "certificate:read", "certificate:update",
                 "certificate:delete", "certificate:revoke", "certificate:verify",
                 "certificate:export", "certificate:sign",
                 "user:create", "user:read", "user:update", "user:delete",
                 "user:assign_role", "role:read", "audit:read", "audit:export" >>,
    issuer |-> << "certificate:create", "certificate:read", "certificate:update",
                  "certificate:revoke", "certificate:verify", "certificate:export",
                  "certificate:sign", "user:read", "audit:read" >>,
    verifier |-> << "certificate:read", "certificate:verify",
                    "user:read:own", "user:update:own" >>,
    holder |-> << "certificate:read:own", "certificate:verify",
                  "user:read:own", "user:update:own" >> ]

\* ROLE_PERMISSIONS[role] || []
getPermissions(role) ==
  IF role \in DOMAIN ROLE_PERMISSIONS THEN ROLE_PERMISSIONS[role] ELSE << >>

\* a plausible slip: indexOf(permission) > 0 instead of includes(permission)
hasPermission_IndexBug(role, permission) ==
  LET permissions == getPermissions(role)
  IN \E i \in 2..Len(permissions) : permissions[i] = permission

\* permissions.includes(permission)
hasPermission(role, permission) ==
  LET permissions == getPermissions(role)
  IN \E i \in 1..Len(permissions) : permissions[i] = permission

\* permissionList.some(p => hasPermission(role, p))
hasAnyPermission(role, permissionList) ==
  \E i \in 1..Len(permissionList) : hasPermission(role, permissionList[i])

(***************************************************************************)
(* State                                                                   *)
(***************************************************************************)
VARIABLES
  users,      \* the User collection: id -> document
  certs,      \* the Certificate collection: id -> document
  audit,      \* the AuditLog collection, in insertion order
  now,        \* the clock (hours)
  inflight,   \* a createCertificate request between its two saves
  last,       \* the request handled last and its response
  nreq,       \* number of requests handled
  auditStore  \* whether a write to the AuditLog collection succeeds: "up", "down"

vars == << users, certs, audit, now, inflight, last, nreq, auditStore >>


(***************************************************************************)
(* models/User.js                                                          *)
(***************************************************************************)
\* bcrypt.hash: a one-way, injective image of the password
Hash(password) == << "bcrypt", password >>

\* the password the accounts are created with, and a wrong one
Passwords == {"TestPass123!", "WrongPassword"}

DefaultPassword == "TestPass123!"

\* an empty slot of the collection (no document with this id)
NoUser ==
  [ exists |-> FALSE, gone |-> FALSE, email |-> 0, role |-> "holder",
    isActive |-> FALSE, password |-> Hash(""), loginAttempts |-> 0,
    lockUntil |-> NoTime, lastLogin |-> NoTime ]

\* the slot of a deleted document: its id is never used again
GoneUser == [NoUser EXCEPT !.gone = TRUE]

\* User.create({email, password, role}) with the schema defaults
NewUser(email, password, role) ==
  [ exists |-> TRUE, gone |-> FALSE, email |-> email, role |-> role,
    isActive |-> TRUE, password |-> Hash(password), loginAttempts |-> 0,
    lockUntil |-> NoTime, lastLogin |-> NoTime ]

\* ids that have been used: tokens can only name such users
EverCreated == {u \in UserIds : users[u].exists \/ users[u].gone}

FreeUserIds == UserIds \ EverCreated

\* User.findOne({ email }): 0 when there is none
FindByEmail(email) ==
  IF \E u \in UserIds : users[u].exists /\ users[u].email = email
  THEN CHOOSE u \in UserIds : users[u].exists /\ users[u].email = email
  ELSE 0

\* virtual isLocked
isLocked(user) == user.lockUntil # NoTime /\ user.lockUntil > now

\* comparePassword
comparePassword(user, candidatePassword) == Hash(candidatePassword) = user.password

MAX_ATTEMPTS == 5
\* 2 * 60 * 60 * 1000 ms, in hours
LOCK_TIME == 2

\* a plausible slip: the expired-lock branch keeps counting from the old value
incLoginAttempts_NoRestart(doc, stored) ==
  [stored EXCEPT !.loginAttempts = @ + 1,
                 !.lockUntil = IF doc.loginAttempts + 1 >= MAX_ATTEMPTS /\ ~isLocked(doc)
                               THEN now + LOCK_TIME ELSE @]

\* a plausible slip: '>' instead of '>=' in the threshold test
incLoginAttempts_OffByOne(doc, stored) ==
  IF doc.lockUntil # NoTime /\ doc.lockUntil < now
  THEN [stored EXCEPT !.lockUntil = NoTime, !.loginAttempts = 1]
  ELSE [stored EXCEPT !.loginAttempts = @ + 1,
                      !.lockUntil = IF doc.loginAttempts + 1 > MAX_ATTEMPTS /\ ~isLocked(doc)
                                    THEN now + LOCK_TIME ELSE @]

\* incLoginAttempts: `doc` is the document the handler loaded (this), `stored`
\* the document in the collection that this.updateOne(...) changes
incLoginAttempts(doc, stored) ==
  IF doc.lockUntil # NoTime /\ doc.lockUntil < now
  THEN [stored EXCEPT !.lockUntil = NoTime, !.loginAttempts = 1]
  ELSE [stored EXCEPT !.loginAttempts = @ + 1,
                      !.lockUntil = IF doc.loginAttempts + 1 >= MAX_ATTEMPTS /\ ~isLocked(doc)
                                    THEN now + LOCK_TIME ELSE @]

\* a plausible slip: the counter is reset but the lock is left in place
resetLoginAttempts_KeepLock(stored) ==
  [stored EXCEPT !.loginAttempts = 0, !.lastLogin = now]

\* resetLoginAttempts
resetLoginAttempts(stored) ==
  [stored EXCEPT !.lockUntil = NoTime, !.loginAttempts = 0, !.lastLogin = now]

(***************************************************************************)
(* models/AuditLog.js                                                      *)
(***************************************************************************)
\* a plausible slip: data.severity is not copied, so that every entry gets
\* the default
AuditEntry_DefaultSeverity(action, severity, userId, success) ==
  [ action |-> action, severity |-> "info",
    performedBy |-> userId,
    performedByEmail |-> IF userId = 0 THEN 0 ELSE users[userId].email,
    performedByRole |-> IF userId = 0 THEN "none" ELSE users[userId].role,
    success |-> success, timestamp |-> now ]

\* the fields of data that log() copies; severity defaults to info
AuditEntry(action, severity, userId, success) ==
  [ action |-> action, severity |-> severity,
    performedBy |-> userId,
    performedByEmail |-> IF userId = 0 THEN 0 ELSE users[userId].email,
    performedByRole |-> IF userId = 0 THEN "none" ELSE users[userId].role,
    success |-> success, timestamp |-> now ]

\* entry.save(): the collection after the write, and whether save() rejected
AuditWrite(log, entry) ==
  IF auditStore = "up" THEN [rejected |-> FALSE, log |-> Append(log, entry)]
  ELSE [rejected |-> TRUE, log |-> log]

\* a plausible slip: log() without its try/catch, so that a rejected save()
\* reaches the caller
AuditLog_log_Rethrow(log, entry) ==
  LET w == AuditWrite(log, entry)
  IN IF w.rejected THEN << "rejected", "Audit log failed" >> ELSE w.log

\* a plausible slip: an upsert keyed by the actor instead of an insert, so
\* that an actor's earlier entry is replaced
AuditLog_log_Upsert(log, entry) ==
  LET w == AuditWrite(SelectSeq(log, LAMBDA e : e.performedBy # entry.performedBy), entry)
  IN w.log

\* AuditLog.log(data): what the caller has after awaiting it. The catch
\* block swallows a rejected save(), so that it is always the collection
AuditLog_log(log, entry) ==
  LET w == AuditWrite(log, entry)
  IN w.log

(***************************************************************************)
(* utils/jwt.js and middleware/auth.js                                     *)
(***************************************************************************)
\* what a request carries in its Authorization header
NoToken == [type |-> "none", uid |-> 0, expired |-> FALSE]
GarbageToken == [type |-> "garbage", uid |-> 0, expired |-> FALSE]
AccessToken(u) == [type |-> "access", uid |-> u, expired |-> FALSE]
ExpiredAccessToken(u) == [type |-> "access", uid |-> u, expired |-> TRUE]
RefreshToken(u) == [type |-> "refresh", uid |-> u, expired |-> FALSE]

\* jwt.verify(token, JWT_SECRET, {issuer, audience}): the signature is checked
\* first (a refresh token is signed with JWT_REFRESH_SECRET and carries no
\* audience), then the expiry
verifyAccessToken(token) ==
  CASE token.type = "garbage" -> "JsonWebTokenError"
    [] token.type = "refresh" -> "JsonWebTokenError"
    [] token.type = "access" /\ token.expired -> "TokenExpiredError"
    [] OTHER -> "decoded"

\* a plausible slip: the isActive check is left out
authenticate_SkipActive(token) ==
  IF token.type = "none"
  THEN [ok |-> FALSE, code |-> "AUTH_REQUIRED", http |-> 401, uid |-> 0,
        log |-> AuditLog_log(audit, AuditEntry("security.unauthorized", "warning", 0, FALSE))]
  ELSE IF verifyAccessToken(token) # "decoded"
  THEN [ok |-> FALSE,
        code |-> IF verifyAccessToken(token) = "TokenExpiredError"
                 THEN "TOKEN_EXPIRED" ELSE "TOKEN_INVALID",
        http |-> 401, uid |-> 0,
        log |-> AuditLog_log(audit, AuditEntry("security.unauthorized", "warning", 0, FALSE))]
  ELSE IF ~users[token.uid].exists
  THEN [ok |-> FALSE, code |-> "USER_NOT_FOUND", http |-> 401, uid |-> 0, log |-> audit]
  ELSE [ok |-> TRUE, code |-> "next", http |-> 0, uid |-> token.uid, log |-> audit]

\* authenticate: the caller (req.user is the live User document), or the
\* response that ends the request, with the audit log after it
authenticate(token) ==
  IF token.type = "none"
  THEN [ok |-> FALSE, code |-> "AUTH_REQUIRED", http |-> 401, uid |-> 0,
        log |-> AuditLog_log(audit, AuditEntry("security.unauthorized", "warning", 0, FALSE))]
  ELSE IF verifyAccessToken(token) # "decoded"
  THEN [ok |-> FALSE,
        code |-> IF verifyAccessToken(token) = "TokenExpiredError"
                 THEN "TOKEN_EXPIRED" ELSE "TOKEN_INVALID",
        http |-> 401, uid |-> 0,
        log |-> AuditLog_log(audit, AuditEntry("security.unauthorized", "warning", 0, FALSE))]
  ELSE IF token.type # "access"
  THEN [ok |-> FALSE, code |-> "TOKEN_TYPE_INVALID", http |-> 401, uid |-> 0, log |-> audit]
  ELSE IF ~users[token.uid].exists
  THEN [ok |-> FALSE, code |-> "USER_NOT_FOUND", http |-> 401, uid |-> 0, log |-> audit]
  ELSE IF ~users[token.uid].isActive
  THEN [ok |-> FALSE, code |-> "ACCOUNT_INACTIVE", http |-> 401, uid |-> 0,
        log |-> AuditLog_log(audit,
                  AuditEntry("security.unauthorized", "warning", token.uid, FALSE))]
  ELSE [ok |-> TRUE, code |-> "next", http |-> 0, uid |-> token.uid, log |-> audit]

\* a plausible slip: the middleware calls next() whatever hasPermission says
authorize_AlwaysNext(token, permission) ==
  LET a == authenticate(token)
  IN a

\* a plausible slip: the permission is looked up for the role the token
\* carries (decoded.role) instead of the role of the user loaded from the store
authorize_TokenRole(token, permission) ==
  LET a == authenticate(token)
  IN IF ~a.ok THEN a
     ELSE IF ~hasPermission(token.role, permission)
     THEN [ok |-> FALSE, code |-> "PERMISSION_DENIED", http |-> 403, uid |-> a.uid,
           log |-> AuditLog_log(audit,
                     AuditEntry("security.forbidden", "warning", a.uid, FALSE))]
     ELSE a

\* router.use(authenticate) followed by authorize(permission)
authorize(token, permission) ==
  LET a == authenticate(token)
  IN IF ~a.ok THEN a
     ELSE IF ~hasPermission(users[a.uid].role, permission)
     THEN [ok |-> FALSE, code |-> "PERMISSION_DENIED", http |-> 403, uid |-> a.uid,
           log |-> AuditLog_log(audit,
                     AuditEntry("security.forbidden", "warning", a.uid, FALSE))]
     ELSE a

\* router.use(authenticate) followed by authorizeAny(permissions)
authorizeAny(token, permissions) ==
  LET a == authenticate(token)
  IN IF ~a.ok THEN a
     ELSE IF ~hasAnyPermission(users[a.uid].role, permissions)
     THEN [ok |-> FALSE, code |-> "PERMISSION_DENIED", http |-> 403, uid |-> a.uid,
           log |-> AuditLog_log(audit,
                     AuditEntry("security.forbidden", "warning", a.uid, FALSE))]
     ELSE a

\* router.use(authenticate) followed by authorizeRole(...roles)
authorizeRole(token, roles) ==
  LET a == authenticate(token)
  IN IF ~a.ok THEN a
     ELSE IF users[a.uid].role \notin roles
     THEN [ok |-> FALSE, code |-> "ROLE_DENIED", http |-> 403, uid |-> a.uid,
           log |-> AuditLog_log(audit,
                     AuditEntry("security.forbidden", "warning", a.uid, FALSE))]
     ELSE a

(***************************************************************************)
(* The request handled last                                                *)
(***************************************************************************)
Response(op, caller, code, http, target, result, prev, compared) ==
  [ op |-> op, caller |-> caller,
    role |-> IF caller = 0 THEN "none" ELSE users[caller].role,
    code |-> code, http |-> http, target |-> target, result |-> result,
    prev |-> prev, compared |-> compared, at |-> now ]

NoResponse ==
  [ op |-> "none", caller |-> 0, role |-> "none", code |-> "none", http |-> 0,
    target |-> 0, result |-> "none", prev |-> "none", compared |-> FALSE, at |-> 0 ]

\* a request that a middleware ended: only the audit log may have grown
Refused(op, gate, target) ==
  /\ audit' = gate.log
  /\ last' = Response(op, gate.uid, gate.code, gate.http, target, "none", "none", FALSE)
  /\ nreq' = nreq + 1
  /\ UNCHANGED << users, certs, now, inflight >>


(***************************************************************************)
(* controllers/authController.js                                           *)
(***************************************************************************)
\* POST /api/auth/register
register(email) ==
  /\ IF FindByEmail(email) # 0
     THEN /\ last' = Response("register", 0, "EMAIL_TAKEN", 409, 0, "none", "none", FALSE)
          /\ UNCHANGED << users, audit >>
     ELSE /\ FreeUserIds # {}
          /\ LET u == CHOOSE x \in FreeUserIds : \A y \in FreeUserIds : x <= y
                 created == [users EXCEPT ![u] = NewUser(email, DefaultPassword, "holder")]
             IN /\ users' = created
                /\ audit' = AuditLog_log(audit,
                     [AuditEntry("auth.register", "info", 0, TRUE)
                        EXCEPT !.performedBy = u, !.performedByEmail = email,
                               !.performedByRole = "holder"])
                /\ last' = Response("register", 0, "OK", 201, u, "holder", "none", FALSE)
  /\ nreq' = nreq + 1
  /\ UNCHANGED << certs, now, inflight >>

\* POST /api/auth/login
login(email, password) ==
  /\ LET u == FindByEmail(email)
     IN IF u = 0
        THEN /\ audit' = AuditLog_log(audit, AuditEntry("auth.login_failed", "warning", 0, FALSE))
             /\ last' = Response("login", 0, "INVALID_CREDENTIALS", 401, 0, "none", "none", FALSE)
             /\ UNCHANGED users
        ELSE IF isLocked(users[u])
        THEN /\ audit' = AuditLog_log(audit,
                  [AuditEntry("auth.account_locked", "critical", u, FALSE)
                     EXCEPT !.performedByRole = "none"])
             /\ last' = Response("login", 0, "ACCOUNT_LOCKED", 423, u, "none", "none", FALSE)
             /\ UNCHANGED users
        ELSE IF ~users[u].isActive
        THEN /\ last' = Response("login", 0, "ACCOUNT_INACTIVE", 401, u, "none", "none", FALSE)
             /\ UNCHANGED << users, audit >>
        ELSE IF ~comparePassword(users[u], password)
        THEN /\ users' = [users EXCEPT ![u] = incLoginAttempts(users[u], users[u])]
             /\ audit' = AuditLog_log(audit,
                  [AuditEntry("auth.login_failed", "warning", u, FALSE)
                     EXCEPT !.performedByRole = "none"])
             /\ last' = Response("login", 0, "INVALID_CREDENTIALS", 401, u, "none", "none", TRUE)
        ELSE /\ users' = [users EXCEPT ![u] = resetLoginAttempts(users[u])]
             /\ audit' = AuditLog_log(audit, AuditEntry("auth.login", "info", u, TRUE))
             /\ last' = Response("login", 0, "OK", 200, u, "tokens", "none", TRUE)
  /\ nreq' = nreq + 1
  /\ UNCHANGED << certs, now, inflight >>

(***************************************************************************)
(* routes/userRoutes.js and controllers/userController.js                  *)
(***************************************************************************)
\* GET /api/users
getUsers(token) ==
  /\ LET g == authorize(token, "user:read")
     IN IF ~g.ok THEN Refused("getUsers", g, 0)
        ELSE /\ last' = Response("getUsers", g.uid, "OK", 200, 0, "none", "none", FALSE)
             /\ nreq' = nreq + 1
             /\ UNCHANGED << users, certs, audit, now, inflight >>

\* POST /api/users; `role` is "" when the body carries none
createUser(token, email, role) ==
  /\ LET g == authorize(token, "user:create")
     IN IF ~g.ok THEN Refused("createUser", g, 0)
        ELSE /\ IF role \in {"admin", "super_admin"} /\ users[g.uid].role # "super_admin"
                THEN /\ last' = Response("createUser", g.uid, "INSUFFICIENT_PRIVILEGE", 403,
                                         0, role, "none", FALSE)
                     /\ UNCHANGED << users, audit >>
                ELSE IF FindByEmail(email) # 0
                THEN /\ last' = Response("createUser", g.uid, "EMAIL_TAKEN", 409,
                                         0, role, "none", FALSE)
                     /\ UNCHANGED << users, audit >>
                ELSE /\ FreeUserIds # {}
                     /\ LET u == CHOOSE x \in FreeUserIds : \A y \in FreeUserIds : x <= y
                            newRole == IF role = "" THEN "holder" ELSE role
                        IN /\ users' = [users EXCEPT
                                          ![u] = NewUser(email, DefaultPassword, newRole)]
                           /\ audit' = AuditLog_log(audit,
                                         AuditEntry("user.create", "info", g.uid, TRUE))
                           /\ last' = Response("createUser", g.uid, "OK", 201,
                                               u, newRole, "none", FALSE)
             /\ nreq' = nreq + 1
             /\ UNCHANGED << certs, now, inflight >>

\* a plausible slip: the super_admin test of assignRole is left out
assignRole_NoEscalationCheck(token, id, role) ==
  /\ LET g == authorize(token, "user:assign_role")
     IN IF ~g.ok THEN Refused("assignRole", g, id)
        ELSE /\ IF ~users[id].exists
                THEN /\ last' = Response("assignRole", g.uid, "none", 404,
                                         id, role, "none", FALSE)
                     /\ UNCHANGED << users, audit >>
                ELSE /\ users' = [users EXCEPT ![id].role = role]
                     /\ audit' = AuditLog_log(audit,
                                   AuditEntry("user.role_assign", "warning", g.uid, TRUE))
                     /\ last' = Response("assignRole", g.uid, "OK", 200,
                                         id, role, users[id].role, FALSE)
             /\ nreq' = nreq + 1
             /\ UNCHANGED << certs, now, inflight >>

\* PATCH /api/users/:id/role (the route validator admits only Object.values(ROLES))
assignRole(token, id, role) ==
  /\ LET g == authorize(token, "user:assign_role")
     IN IF ~g.ok THEN Refused("assignRole", g, id)
        ELSE /\ IF role \in {"admin", "super_admin"} /\ users[g.uid].role # "super_admin"
                THEN /\ last' = Response("assignRole", g.uid, "INSUFFICIENT_PRIVILEGE", 403,
                                         id, role, "none", FALSE)
                     /\ UNCHANGED << users, audit >>
                ELSE IF ~users[id].exists
                THEN /\ last' = Response("assignRole", g.uid, "none", 404,
                                         id, role, "none", FALSE)
                     /\ UNCHANGED << users, audit >>
                ELSE /\ users' = [users EXCEPT ![id].role = role]
                     /\ audit' = AuditLog_log(audit,
                                   AuditEntry("user.role_assign", "warning", g.uid, TRUE))
                     /\ last' = Response("assignRole", g.uid, "OK", 200,
                                         id, role, users[id].role, FALSE)
             /\ nreq' = nreq + 1
             /\ UNCHANGED << certs, now, inflight >>

\* PATCH /api/users/:id/status
toggleUserStatus(token, id, isActive) ==
  /\ LET g == authorize(token, "user:update")
     IN IF ~g.ok THEN Refused("toggleUserStatus", g, id)
        ELSE /\ IF id = g.uid /\ ~isActive
                THEN /\ last' = Response("toggleUserStatus", g.uid, "SELF_DEACTIVATION", 400,
                                         id, "none", "none", FALSE)
                     /\ UNCHANGED << users, audit >>
                ELSE IF ~users[id].exists
                THEN /\ last' = Response("toggleUserStatus", g.uid, "none", 404,
                                         id, "none", "none", FALSE)
                     /\ UNCHANGED << users, audit >>
                ELSE /\ users' = [users EXCEPT ![id].isActive = isActive]
                     /\ audit' = AuditLog_log(audit,
                                   AuditEntry(IF isActive THEN "user.activate"
                                              ELSE "user.deactivate", "warning", g.uid, TRUE))
                     /\ last' = Response("toggleUserStatus", g.uid, "OK", 200, id,
                                         IF isActive THEN "active" ELSE "inactive",
                                         "none", FALSE)
             /\ nreq' = nreq + 1
             /\ UNCHANGED << certs, now, inflight >>

\* a plausible slip: the test against the caller's own id is left out
deleteUser_NoSelfCheck(token, id) ==
  /\ LET g == authorizeRole(token, {"super_admin"})
     IN IF ~g.ok THEN Refused("deleteUser", g, id)
        ELSE /\ IF ~users[id].exists
                THEN /\ last' = Response("deleteUser", g.uid, "none", 404,
                                         id, "none", "none", FALSE)
                     /\ UNCHANGED << users, audit >>
                ELSE /\ users' = [users EXCEPT ![id] = GoneUser]
                     /\ audit' = AuditLog_log(audit,
                                   AuditEntry("user.delete", "critical", g.uid, TRUE))
                     /\ last' = Response("deleteUser", g.uid, "OK", 200,
                                         id, "none", "none", FALSE)
             /\ nreq' = nreq + 1
             /\ UNCHANGED << certs, now, inflight >>

\* DELETE /api/users/:id
deleteUser(token, id) ==
  /\ LET g == authorizeRole(token, {"super_admin"})
     IN IF ~g.ok THEN Refused("deleteUser", g, id)
        ELSE /\ IF id = g.uid
                THEN /\ last' = Response("deleteUser", g.uid, "none", 400,
                                         id, "none", "none", FALSE)
                     /\ UNCHANGED << users, audit >>
                ELSE IF ~users[id].exists
                THEN /\ last' = Response("deleteUser", g.uid, "none", 404,
                                         id, "none", "none", FALSE)
                     /\ UNCHANGED << users, audit >>
                ELSE /\ users' = [users EXCEPT ![id] = GoneUser]
                     /\ audit' = AuditLog_log(audit,
                                   AuditEntry("user.delete", "critical", g.uid, TRUE))
                     /\ last' = Response("deleteUser", g.uid, "OK", 200,
                                         id, "none", "none", FALSE)
             /\ nreq' = nreq + 1
             /\ UNCHANGED << certs, now, inflight >>

(***************************************************************************)
(* routes/auditRoutes.js                                                   *)
(***************************************************************************)
\* GET /api/audit
getAuditLogs(token) ==
  /\ LET g == authorize(token, "audit:read")
     IN IF ~g.ok THEN Refused("getAuditLogs", g, 0)
        ELSE /\ last' = Response("getAuditLogs", g.uid, "OK", 200, 0, "none", "none", FALSE)
             /\ nreq' = nreq + 1
             /\ UNCHANGED << users, certs, audit, now, inflight >>


(***************************************************************************)
(* models/Certificate.js                                                   *)
(***************************************************************************)
CERTIFICATE_STATUS == {"draft", "pending", "active", "expired", "revoked", "suspended"}

\* enum of verificationHistory[].result
HISTORY_RESULTS == {"valid", "invalid", "expired", "revoked"}

\* process.env.CERT_SIGNING_SECRET || 'cert-signing-secret-2024'
SIGNING_SECRET == "cert-signing-secret-2024"

NoSignature == << >>
NoChecksum == << >>

\* this.holder?.toString(): the ObjectId's hex string while the path holds the
\* reference; the inspect() text of the populated User document after
\* .populate('holder', 'fullName email'); undefined when populate found no user
HolderRef(holder) == << "ObjectId", holder >>
HolderPopulated(holder) ==
  IF users[holder].exists THEN << "Document", holder, users[holder].email >>
  ELSE << "undefined" >>

\* sha256 over JSON.stringify({title, holder, holderName, issuingOrganization,
\* issuedAt, type}); the fields no handler changes are carried by `title`
Checksum(title, holderString) == << "sha256", title, holderString >>

\* createHmac('sha256', secretKey).update(`${certificateId}|${serialNumber}|${checksum}`)
Hmac(secretKey, doc) ==
  << "hmac", secretKey, doc.certificateId, doc.serialNumber, doc.checksum >>

NoCert ==
  [ exists |-> FALSE, origin |-> "none", title |-> "", status |-> "draft",
    holder |-> 0, issuedBy |-> 0, expiresAt |-> NoTime,
    digitalSignature |-> NoSignature, checksum |-> NoChecksum,
    certificateId |-> 0, serialNumber |-> 0, verificationToken |-> 0,
    revokedAt |-> NoTime, revokedBy |-> 0, revocationReason |-> "",
    verificationHistory |-> << >> ]

FreeCertIds == {c \in CertIds : ~certs[c].exists}

\* crypto.randomBytes(n): a value no earlier certificate received
Fresh(c) == c

\* a plausible slip: the checksum is left out of the pre-save hook's guard-free part
PreSave_KeepChecksum(doc, c, holderString) ==
  [doc EXCEPT !.certificateId = IF @ = 0 THEN Fresh(c) ELSE @,
              !.serialNumber = IF @ = 0 THEN Fresh(c) ELSE @,
              !.verificationToken = IF @ = 0 THEN Fresh(c) ELSE @,
              !.checksum = IF @ = NoChecksum THEN Checksum(doc.title, holderString) ELSE @]

\* certificateSchema.pre('save'): ids only when unset, the checksum on every save
PreSave(doc, c, holderString) ==
  [doc EXCEPT !.certificateId = IF @ = 0 THEN Fresh(c) ELSE @,
              !.serialNumber = IF @ = 0 THEN Fresh(c) ELSE @,
              !.verificationToken = IF @ = 0 THEN Fresh(c) ELSE @,
              !.checksum = Checksum(doc.title, holderString)]

\* methods.signCertificate
signCertificate(doc, secretKey) == Hmac(secretKey, doc)

\* a plausible slip: any stored signature is accepted
verifySignature_AnySignature(doc, secretKey) == doc.digitalSignature # NoSignature

\* methods.verifySignature
verifySignature(doc, secretKey) ==
  IF doc.digitalSignature = NoSignature THEN FALSE
  ELSE doc.digitalSignature = Hmac(secretKey, doc)

\* virtual isExpired
isExpired(doc) == doc.expiresAt # NoTime /\ doc.expiresAt < now

\* Certificate.findOne({ verificationToken: token }): 0 when there is none
FindByToken(token) ==
  IF \E c \in CertIds : certs[c].exists /\ certs[c].verificationToken = token
  THEN CHOOSE c \in CertIds : certs[c].exists /\ certs[c].verificationToken = token
  ELSE 0

\* new Certificate({...}) before its first save
NewCertificate(origin, status, holder, issuedBy, expiresAt) ==
  [NoCert EXCEPT !.exists = TRUE, !.origin = origin, !.title = "Test Certificate",
                 !.status = status, !.holder = holder, !.issuedBy = issuedBy,
                 !.expiresAt = expiresAt]

\* Certificate.create({..., status}) done directly on the model, optionally
\* followed by cert.signCertificate(SIGNING_SECRET); cert.save()
\* (tests/auth-rbac.test.js: the fixtures of the certificate tests)
SeedCertificate(status, signed, holder, issuedBy, expiresAt) ==
  /\ FreeCertIds # {}
  /\ users[holder].exists /\ users[issuedBy].exists
  /\ LET c == CHOOSE x \in FreeCertIds : \A y \in FreeCertIds : x <= y
         saved == PreSave(NewCertificate("seed", status, holder, issuedBy, expiresAt),
                          c, HolderRef(holder))
     IN certs' = [certs EXCEPT ![c] =
                    IF signed
                    THEN [saved EXCEPT !.digitalSignature = signCertificate(saved, SIGNING_SECRET)]
                    ELSE saved]
  /\ last' = Response("seed", 0, "OK", 0, 0, "none", "none", FALSE)
  /\ nreq' = nreq + 1
  /\ UNCHANGED << users, audit, now, inflight >>

\* statics.autoExpireCertificates: one updateMany
autoExpireCertificates ==
  /\ certs' = [c \in CertIds |->
                 IF certs[c].exists /\ certs[c].status = "active"
                    /\ certs[c].expiresAt # NoTime /\ certs[c].expiresAt < now
                 THEN [certs[c] EXCEPT !.status = "expired"]
                 ELSE certs[c]]
  /\ last' = Response("autoExpire", 0, "OK", 0, 0, "none", "none", FALSE)
  /\ nreq' = nreq + 1
  /\ UNCHANGED << users, audit, now, inflight >>


(***************************************************************************)
(* routes/certificateRoutes.js, routes/verifyRoutes.js and                 *)
(* controllers/certificateController.js                                    *)
(***************************************************************************)
NoInflight == [cert |-> 0, caller |-> 0, role |-> "none"]

\* POST /api/certificates, up to and including the first save.
\* holderEmail = 0: the body names no holder
createCertificate(token, holderEmail, expiresAt) ==
  LET g == authorize(token, "certificate:create")
  IN IF ~g.ok THEN Refused("createCertificate", g, 0)
     ELSE IF holderEmail # 0 /\ FindByEmail(holderEmail) = 0
     THEN /\ last' = Response("createCertificate", g.uid, "HOLDER_NOT_FOUND", 404,
                              0, "none", "none", FALSE)
          /\ nreq' = nreq + 1
          /\ UNCHANGED << users, certs, audit, now, inflight >>
     ELSE IF holderEmail = 0
     THEN /\ last' = Response("createCertificate", g.uid, "HOLDER_REQUIRED", 400,
                              0, "none", "none", FALSE)
          /\ nreq' = nreq + 1
          /\ UNCHANGED << users, certs, audit, now, inflight >>
     ELSE /\ FreeCertIds # {}
          /\ LET c == CHOOSE x \in FreeCertIds : \A y \in FreeCertIds : x <= y
                 holder == FindByEmail(holderEmail)
             IN /\ certs' = [certs EXCEPT ![c] =
                      PreSave(NewCertificate("create", "pending", holder, g.uid, expiresAt),
                              c, HolderRef(holder))]
                /\ inflight' = [cert |-> c, caller |-> g.uid, role |-> users[g.uid].role]
          /\ UNCHANGED << users, audit, now, last, nreq >>

\* a plausible slip: the certificate is activated whether or not it was signed
createCertificate_sign_Unconditional ==
  /\ inflight.cert # 0
  /\ LET c == inflight.cert
         saved == [certs[c] EXCEPT !.status = "active"]
     IN /\ certs' = [certs EXCEPT ![c] = saved]
        /\ audit' = AuditLog_log(audit,
             [AuditEntry("certificate.create", "info", inflight.caller, TRUE)
                EXCEPT !.performedByRole = inflight.role])
        /\ last' = [Response("createCertificate", inflight.caller, "OK", 201,
                             c, saved.status, "pending", FALSE)
                      EXCEPT !.role = inflight.role]
  /\ inflight' = NoInflight
  /\ nreq' = nreq + 1
  /\ UNCHANGED << users, now >>

\* a plausible slip: the signature is stored and the status left pending
createCertificate_sign_KeepPending ==
  /\ inflight.cert # 0
  /\ LET c == inflight.cert
         saved == [certs[c] EXCEPT
                     !.digitalSignature = signCertificate(certs[c], SIGNING_SECRET)]
     IN /\ certs' = [certs EXCEPT ![c] = saved]
        /\ audit' = AuditLog_log(audit,
             [AuditEntry("certificate.create", "info", inflight.caller, TRUE)
                EXCEPT !.performedByRole = inflight.role])
        /\ last' = [Response("createCertificate", inflight.caller, "OK", 201,
                             c, saved.status, "pending", FALSE)
                      EXCEPT !.role = inflight.role]
  /\ inflight' = NoInflight
  /\ nreq' = nreq + 1
  /\ UNCHANGED << users, now >>

\* POST /api/certificates, from the auto-sign test to the response: the
\* document in memory is the one of the first save; save() writes the paths
\* it modified
createCertificate_sign ==
  /\ inflight.cert # 0
  /\ LET c == inflight.cert
         saved ==
           IF hasPermission(inflight.role, "certificate:sign")
           THEN PreSave([certs[c] EXCEPT
                           !.digitalSignature = signCertificate(certs[c], SIGNING_SECRET),
                           !.status = "active"],
                        c, HolderRef(certs[c].holder))
           ELSE certs[c]
     IN /\ certs' = [certs EXCEPT ![c] = saved]
        /\ audit' = AuditLog_log(audit,
             [AuditEntry("certificate.create", "info", inflight.caller, TRUE)
                EXCEPT !.performedByRole = inflight.role])
        /\ last' = [Response("createCertificate", inflight.caller, "OK", 201,
                             c, saved.status, "pending", FALSE)
                      EXCEPT !.role = inflight.role]
  /\ inflight' = NoInflight
  /\ nreq' = nreq + 1
  /\ UNCHANGED << users, now >>

\* the text stored as revocationReason: reason || 'No reason provided'
ReasonOrDefault(reason) == IF reason = "" THEN "No reason provided" ELSE reason

\* a plausible slip: the already-revoked guard is left out
revokeCertificate_NoGuard(token, id, reason) ==
  LET g == authorize(token, "certificate:revoke")
  IN IF ~g.ok THEN Refused("revokeCertificate", g, id)
     ELSE /\ IF ~certs[id].exists
             THEN /\ last' = Response("revokeCertificate", g.uid, "CERT_NOT_FOUND", 404,
                                      id, "none", "none", FALSE)
                  /\ UNCHANGED << certs, audit >>
             ELSE /\ certs' = [certs EXCEPT ![id] =
                       PreSave([certs[id] EXCEPT !.status = "revoked",
                                                 !.revokedAt = now,
                                                 !.revokedBy = g.uid,
                                                 !.revocationReason = ReasonOrDefault(reason)],
                               id, HolderRef(certs[id].holder))]
                  /\ audit' = AuditLog_log(audit,
                                AuditEntry("certificate.revoke", "critical", g.uid, TRUE))
                  /\ last' = Response("revokeCertificate", g.uid, "OK", 200,
                                      id, reason, certs[id].status, FALSE)
          /\ nreq' = nreq + 1
          /\ UNCHANGED << users, now, inflight >>

\* PUT /api/certificates/:id/revoke
revokeCertificate(token, id, reason) ==
  LET g == authorize(token, "certificate:revoke")
  IN IF ~g.ok THEN Refused("revokeCertificate", g, id)
     ELSE /\ IF ~certs[id].exists
             THEN /\ last' = Response("revokeCertificate", g.uid, "CERT_NOT_FOUND", 404,
                                      id, "none", "none", FALSE)
                  /\ UNCHANGED << certs, audit >>
             ELSE IF certs[id].status = "revoked"
             THEN /\ last' = Response("revokeCertificate", g.uid, "ALREADY_REVOKED", 400,
                                      id, "none", "revoked", FALSE)
                  /\ UNCHANGED << certs, audit >>
             ELSE /\ certs' = [certs EXCEPT ![id] =
                       PreSave([certs[id] EXCEPT !.status = "revoked",
                                                 !.revokedAt = now,
                                                 !.revokedBy = g.uid,
                                                 !.revocationReason = ReasonOrDefault(reason)],
                               id, HolderRef(certs[id].holder))]
                  /\ audit' = AuditLog_log(audit,
                                AuditEntry("certificate.revoke", "critical", g.uid, TRUE))
                  /\ last' = Response("revokeCertificate", g.uid, "OK", 200,
                                      id, reason, certs[id].status, FALSE)
          /\ nreq' = nreq + 1
          /\ UNCHANGED << users, now, inflight >>

\* a plausible slip: the expiry test is made before the status tests
verificationResult_ExpiryFirst(doc) ==
  IF isExpired(doc) THEN "expired"
  ELSE IF doc.status = "revoked" THEN "revoked"
  ELSE IF doc.status = "suspended" THEN "suspended"
  ELSE IF doc.status # "active" THEN "invalid"
  ELSE IF doc.digitalSignature # NoSignature /\ ~verifySignature(doc, SIGNING_SECRET)
  THEN "invalid"
  ELSE "valid"

\* the if/else chain of verifyCertificate that sets verificationResult
verificationResult(doc) ==
  IF doc.status = "revoked" THEN "revoked"
  ELSE IF doc.status = "suspended" THEN "suspended"
  ELSE IF isExpired(doc) THEN "expired"
  ELSE IF doc.status # "active" THEN "invalid"
  ELSE IF doc.digitalSignature # NoSignature /\ ~verifySignature(doc, SIGNING_SECRET)
  THEN "invalid"
  ELSE "valid"

\* GET|POST /api/verify/:token (no middleware: req.user is undefined).
\* saveOk: whether save() passes validation when populate found no holder
\* (the required path `holder` is then null)
verifyCertificate(token, saveOk) ==
  /\ LET c == FindByToken(token)
     IN IF c = 0
        THEN /\ audit' = AuditLog_log(audit,
                           AuditEntry("certificate.verify_failed", "warning", 0, FALSE))
             /\ last' = Response("verifyCertificate", 0, "CERT_NOT_FOUND", 404,
                                 0, "invalid", "none", FALSE)
             /\ UNCHANGED certs
        ELSE LET result == verificationResult(certs[c])
                 holderFound == users[certs[c].holder].exists
             IN IF result \notin HISTORY_RESULTS \/ (~holderFound /\ ~saveOk)
                THEN \* save() rejects the document: the catch block answers
                     /\ last' = Response("verifyCertificate", 0, "none", 500,
                                         c, "error", certs[c].status, FALSE)
                     /\ UNCHANGED << certs, audit >>
                ELSE /\ certs' = [certs EXCEPT ![c] =
                          PreSave([certs[c] EXCEPT
                                     !.verificationHistory = Append(@, result)],
                                  c, HolderPopulated(certs[c].holder))]
                     /\ audit' = AuditLog_log(audit,
                          AuditEntry("certificate.verify", "info", 0, result = "valid"))
                     /\ last' = Response("verifyCertificate", 0, "OK", 200,
                                         c, result, certs[c].status, FALSE)
  /\ nreq' = nreq + 1
  /\ UNCHANGED << users, now, inflight >>


(***************************************************************************)
(* The system                                                              *)
(***************************************************************************)
\* the clock advances, up to `limit`
Advance(limit) ==
  /\ now < limit
  /\ now' = now + 1
  /\ UNCHANGED << users, certs, audit, inflight, last, nreq >>

Tick == Advance(MaxTime)

\* the accounts the store starts with (the tests' fixtures create one user
\* per role): user 1 is an active super_admin, user 2 has any role and is
\* active or not, the other ids are free
SeededUsers ==
  { [u \in UserIds |->
       IF u = 1 THEN NewUser(1, DefaultPassword, "super_admin")
       ELSE IF u = 2 THEN [NewUser(2, DefaultPassword, r) EXCEPT !.isActive = a]
       ELSE NoUser] : r \in ROLES, a \in BOOLEAN }

EmptyStore ==
  /\ certs = [c \in CertIds |-> NoCert]
  /\ audit = << >>
  /\ now = 1
  /\ inflight = NoInflight
  /\ last = NoResponse
  /\ nreq = 0
  /\ auditStore = "up"

Init ==
  /\ users \in SeededUsers
  /\ EmptyStore

\* request inputs
ExpiryChoices == {NoTime, 0, 1}
Reasons == {"", "policy violation"}
RoleChoices == {"", "super_admin", "admin", "issuer"}
TokenChoices == 0..MaxCerts

\* every kind of Authorization header once, and a valid access token of
\* every user there has been
SomeCredentials ==
  {NoToken, GarbageToken, ExpiredAccessToken(1), RefreshToken(1)}
    \cup {AccessToken(u) : u \in EverCreated}

UserRequest(T) ==
  \/ \E e \in Emails : register(e)
  \/ \E e \in Emails, p \in Passwords : login(e, p)
  \/ \E t \in T : getUsers(t)
  \/ \E t \in T, e \in Emails, r \in RoleChoices : createUser(t, e, r)
  \/ \E t \in T, u \in UserIds, r \in ROLES : assignRole(t, u, r)
  \/ \E t \in T, u \in UserIds, a \in BOOLEAN : toggleUserStatus(t, u, a)
  \/ \E t \in T, u \in UserIds : deleteUser(t, u)
  \/ \E t \in T : getAuditLogs(t)

CertificateRequest(T) ==
  \/ \E t \in T, e \in {0, 2, MaxUsers}, x \in ExpiryChoices : createCertificate(t, e, x)
  \/ \E t \in T, c \in CertIds, r \in Reasons : revokeCertificate(t, c, r)
  \/ \E k \in TokenChoices, ok \in BOOLEAN : verifyCertificate(k, ok)
  \/ \E st \in CERTIFICATE_STATUS, sg \in BOOLEAN, x \in ExpiryChoices :
       SeedCertificate(st, sg, 2, 1, x)
  \/ autoExpireCertificates

\* The whole API.  Requests are handled one at a time: nothing else runs
\* between the two saves of createCertificate
Next ==
  \/ /\ inflight.cert = 0 /\ nreq < MaxRequests /\ UserRequest(SomeCredentials)
     /\ UNCHANGED auditStore
  \/ /\ inflight.cert = 0 /\ nreq < MaxRequests /\ CertificateRequest(SomeCredentials)
     /\ UNCHANGED auditStore
  \/ /\ createCertificate_sign
     /\ UNCHANGED auditStore

Spec == Init /\ [][Next]_vars

\* The certificate lifecycle over time, with callers that hold a valid token
ValidCredentials == {NoToken} \cup {AccessToken(u) : u \in EverCreated}

NextCert ==
  \/ /\ inflight.cert = 0 /\ nreq < MaxCertRequests /\ CertificateRequest(ValidCredentials)
     /\ UNCHANGED auditStore
  \/ /\ createCertificate_sign
     /\ UNCHANGED auditStore
  \/ /\ Tick
     /\ UNCHANGED auditStore

\* user 1 may do everything; user 2 is an issuer or a holder
InitCert ==
  /\ \E r \in {"issuer", "holder"} :
       users = [u \in UserIds |->
                  IF u = 1 THEN NewUser(1, DefaultPassword, "super_admin")
                  ELSE IF u = 2 THEN NewUser(2, DefaultPassword, r)
                  ELSE NoUser]
  /\ EmptyStore

SpecCert == InitCert /\ [][NextCert]_vars

\* User management
NextUsers ==
  \/ /\ nreq < MaxUserRequests /\ UserRequest(ValidCredentials)
     /\ UNCHANGED auditStore

SpecUsers == Init /\ [][NextUsers]_vars

\* The account lockout guard: logins on the account of user 2, which an
\* administrator deactivates and activates again, while the clock advances
InitLogin ==
  /\ users = [u \in UserIds |->
                IF u = 1 THEN NewUser(1, DefaultPassword, "super_admin")
                ELSE IF u = 2 THEN NewUser(2, DefaultPassword, "holder")
                ELSE NoUser]
  /\ EmptyStore

NextLogin ==
  \/ /\ nreq < MaxLoginRequests /\ \E p \in Passwords : login(2, p)
     /\ UNCHANGED auditStore
  \/ /\ nreq < MaxLoginRequests /\ toggleUserStatus(AccessToken(1), 2, ~users[2].isActive)
     /\ UNCHANGED auditStore
  \/ /\ Advance(MaxLoginTime)
     /\ UNCHANGED auditStore

SpecLogin == InitLogin /\ [][NextLogin]_vars

\* The permission check as a function: any role name, any permission
RoleNames == ROLES \cup {"unknown_role"}
PermissionNames == Range(PERMISSIONS) \cup {"certificate:unknown"}

InitRbac ==
  /\ users = [u \in UserIds |-> NoUser]
  /\ EmptyStore

hasPermissionCall(role, permission) ==
  /\ last' = [NoResponse EXCEPT !.op = "hasPermission", !.role = role,
                                !.prev = permission,
                                !.result = IF hasPermission(role, permission)
                                           THEN "true" ELSE "false"]
  /\ UNCHANGED << users, certs, audit, now, inflight, nreq >>

NextRbac ==
  \/ /\ \E r \in RoleNames, p \in PermissionNames : hasPermissionCall(r, p)
     /\ UNCHANGED auditStore

SpecRbac == InitRbac /\ [][NextRbac]_vars

(***************************************************************************)
(* Properties                                                              *)
(***************************************************************************)
\* the caller a token stands for may use a route that requires `permission`:
\* an unexpired access token of an existing, active user whose role holds it
Authorized(token, permission) ==
  /\ token.type = "access"
  /\ ~token.expired
  /\ users[token.uid].exists
  /\ users[token.uid].isActive
  /\ permission \in Range(getPermissions(users[token.uid].role))

\* the step is a protected request made with `token`, on a route that
\* requires `permission`
ProtectedRequest(token, permission) ==
  \/ /\ permission = "certificate:create"
     /\ last'.op = "createCertificate" \/ inflight'.cert # 0
     /\ \E e \in 0..MaxUsers, x \in ExpiryChoices : createCertificate(token, e, x)
  \/ /\ permission = "certificate:revoke"
     /\ last'.op = "revokeCertificate"
     /\ \E c \in CertIds, r \in Reasons : revokeCertificate(token, c, r)
  \/ /\ permission = "user:read"
     /\ last'.op = "getUsers"
     /\ getUsers(token)
  \/ /\ permission = "user:create"
     /\ last'.op = "createUser"
     /\ \E e \in Emails, r \in RoleChoices : createUser(token, e, r)
  \/ /\ permission = "user:assign_role"
     /\ last'.op = "assignRole"
     /\ \E u \in UserIds, r \in ROLES : assignRole(token, u, r)
  \/ /\ permission = "user:update"
     /\ last'.op = "toggleUserStatus"
     /\ \E u \in UserIds, a \in BOOLEAN : toggleUserStatus(token, u, a)
  \/ /\ permission = "audit:read"
     /\ last'.op = "getAuditLogs"
     /\ getAuditLogs(token)

\* the permission each protected route requires
RequiredPermission ==
  [ createCertificate |-> "certificate:create",
    revokeCertificate |-> "certificate:revoke",
    getUsers |-> "user:read",
    createUser |-> "user:create",
    assignRole |-> "user:assign_role",
    toggleUserStatus |-> "user:update",
    getAuditLogs |-> "audit:read" ]

\* the permissions of the routes the step may be a request to
StepPermissions ==
  IF inflight'.cert # 0 THEN {"certificate:create"}
  ELSE IF last'.op \in DOMAIN RequiredPermission /\ nreq' = nreq + 1
  THEN {RequiredPermission[last'.op]}
  ELSE {}

\* the error code of a request that the middleware ends
RefusalCode(token, permission) ==
  IF token.type = "none" THEN "AUTH_REQUIRED"
  ELSE IF token.type # "access" THEN "TOKEN_INVALID"
  ELSE IF token.expired THEN "TOKEN_EXPIRED"
  ELSE IF ~users[token.uid].exists THEN "USER_NOT_FOUND"
  ELSE IF ~users[token.uid].isActive THEN "ACCOUNT_INACTIVE"
  ELSE "PERMISSION_DENIED"

\* C1: a protected request (create certificate, revoke certificate, list
\* users, create user, assign role, toggle user status, read audit log) that
\* is not made by an existing active user whose role holds the route's
\* permission changes no certificate and no user record and starts no
\* handler.  It ends with AUTH_REQUIRED when no token is presented, with
\* PERMISSION_DENIED when the authenticated caller lacks the permission, and
\* with TOKEN_INVALID, TOKEN_EXPIRED, USER_NOT_FOUND or ACCOUNT_INACTIVE when
\* the token presented does not stand for an existing active user.
C1_ProtectedOperationsAreGated ==
  [][\A token \in SomeCredentials, permission \in StepPermissions :
       (inflight.cert = 0 /\ ~Authorized(token, permission)
          /\ ProtectedRequest(token, permission))
       => /\ users' = users
          /\ certs' = certs
          /\ inflight' = inflight
          /\ last'.code = RefusalCode(token, permission)]_vars

\* C1 as stated: every protected request that is not let through ends with
\* AUTH_REQUIRED or PERMISSION_DENIED.
C1_OnlyTwoRefusals ==
  [][\A token \in SomeCredentials, permission \in StepPermissions :
       (inflight.cert = 0 /\ ~Authorized(token, permission)
          /\ ProtectedRequest(token, permission))
       => /\ users' = users
          /\ certs' = certs
          /\ inflight' = inflight
          /\ last'.code \in {"AUTH_REQUIRED", "PERMISSION_DENIED"}]_vars

\* a holder's revoke request has been refused with PERMISSION_DENIED
C1_Witness ==
  /\ last.op = "revokeCertificate"
  /\ last.code = "PERMISSION_DENIED"
  /\ last.caller # 0
  /\ last.role = "holder"

\* C2: for every role R and every permission P, hasPermission(R, P) answers
\* true exactly when the static table ROLE_PERMISSIONS lists P for R; a call
\* repeated with the same arguments gives the same answer; and super_admin
\* holds every permission of the catalog.
C2_HasPermissionMatchesTable ==
  [][last'.op = "hasPermission" =>
       /\ last'.result = "true" <=>
            /\ last'.role \in DOMAIN ROLE_PERMISSIONS
            /\ last'.prev \in Range(ROLE_PERMISSIONS[last'.role])
       /\ (last'.role = "super_admin" /\ last'.prev \in Range(PERMISSIONS))
            => last'.result = "true"
       /\ (last.op = "hasPermission" /\ last'.role = last.role
             /\ last'.prev = last.prev)
            => last'.result = last.result]_vars

\* hasPermission has granted certificate:create, the first permission of the
\* issuer's list, to an issuer
C2_Witness ==
  /\ last.op = "hasPermission"
  /\ last.role = "issuer"
  /\ last.prev = "certificate:create"
  /\ last.result = "true"

PrivilegedRoles == {"admin", "super_admin"}

\* the step gives user u a privileged role it did not hold before
GainsPrivilegedRole(u) ==
  /\ users'[u].exists
  /\ users'[u].role \in PrivilegedRoles
  /\ ~(users[u].exists /\ users[u].role = users'[u].role)

\* the step is a createUser or assignRole request made with `token` that
\* asks for `role`
RoleRequest(token, role) ==
  \/ /\ last'.op = "createUser"
     /\ \E e \in Emails : createUser(token, e, role)
  \/ /\ last'.op = "assignRole"
     /\ \E u \in UserIds : assignRole(token, u, role)

\* C3: a user comes to hold role admin or super_admin only by a successful
\* createUser or assignRole request whose caller's role is super_admin.  A
\* createUser or assignRole asking for admin or super_admin that reaches the
\* handler (its caller holds the route's permission) fails with
\* INSUFFICIENT_PRIVILEGE and changes no user when the caller is not a
\* super_admin, and is not refused for privilege when the caller is one: it
\* then gives the role whenever the target of assignRole exists.
C3_PrivilegedRolesFromSuperAdminOnly ==
  [][/\ \A u \in UserIds :
          GainsPrivilegedRole(u)
          => /\ last'.op \in {"createUser", "assignRole"}
             /\ nreq' = nreq + 1
             /\ last'.role = "super_admin"
             /\ last'.code = "OK"
             /\ last'.target = u
     /\ (nreq' = nreq + 1 /\ last'.op \in {"createUser", "assignRole"}
           /\ last'.result \in PrivilegedRoles)
        => IF last'.role = "super_admin"
           THEN /\ last'.code \in {"OK", "EMAIL_TAKEN", "none"}
                /\ last'.code = "OK"
                     => /\ users'[last'.target].exists
                        /\ users'[last'.target].role = last'.result
                /\ (last'.op = "assignRole" /\ users[last'.target].exists)
                     => last'.code = "OK"
           ELSE /\ last'.code = "INSUFFICIENT_PRIVILEGE"
                /\ users' = users]_vars

\* C3 as stated: a createUser or assignRole asking for admin or super_admin
\* made by any caller other than a super_admin fails with
\* INSUFFICIENT_PRIVILEGE and changes no user.
C3_AnyOtherCallerInsufficientPrivilege ==
  [][\A caller \in UserIds, role \in PrivilegedRoles :
       (/\ users[caller].exists
        /\ users[caller].isActive
        /\ users[caller].role # "super_admin"
        /\ RoleRequest(AccessToken(caller), role))
       => /\ last'.code = "INSUFFICIENT_PRIVILEGE"
          /\ users' = users]_vars

\* an admin asked for role super_admin and was refused
C3_Witness ==
  /\ last.op = "assignRole"
  /\ last.code = "INSUFFICIENT_PRIVILEGE"
  /\ last.role = "admin"
  /\ last.result = "super_admin"

\* the step is a verify request that found the certificate last'.target
VerifyFound ==
  /\ last'.op = "verifyCertificate"
  /\ nreq' = nreq + 1
  /\ last'.target # 0

\* C4: for a certificate found by its verification token, verify reports the
\* result of the first condition that holds: status revoked gives revoked;
\* status suspended gives suspended; expiresAt earlier than now gives
\* expired; any other status that is not active gives invalid; otherwise the
\* result is valid or invalid (so a certificate both revoked and past
\* expiresAt reports revoked).
C4_VerifyPrecedence ==
  [][VerifyFound =>
       LET doc == certs[last'.target]
       IN IF doc.status = "revoked" THEN last'.result = "revoked"
          ELSE IF doc.status = "suspended" THEN last'.result = "suspended"
          ELSE IF doc.expiresAt # NoTime /\ doc.expiresAt < now
          THEN last'.result = "expired"
          ELSE IF doc.status # "active" THEN last'.result = "invalid"
          ELSE last'.result \in {"valid", "invalid"}]_vars

\* verify of a suspended certificate has answered 500 with result "error"
C4_Witness ==
  /\ last.op = "verifyCertificate"
  /\ last.target # 0
  /\ last.prev = "suspended"
  /\ last.result = "error"
  /\ last.http = 500
  /\ certs[last.target].verificationHistory = << >>

\* C5: verify reports valid only for a certificate whose status is active,
\* whose expiresAt is not in the past and whose stored signature equals the
\* HMAC recomputed from its certificateId, serialNumber and checksum under
\* the signing secret; an active certificate without a signature is never
\* reported valid.
C5_ValidOnlyIfSignatureMatches ==
  [][(VerifyFound /\ last'.result = "valid") =>
       LET doc == certs[last'.target]
       IN /\ doc.status = "active"
          /\ ~(doc.expiresAt # NoTime /\ doc.expiresAt < now)
          /\ doc.digitalSignature # NoSignature
          /\ doc.digitalSignature =
               << "hmac", SIGNING_SECRET, doc.certificateId, doc.serialNumber,
                  doc.checksum >>]_vars

\* verify has reported valid for an active certificate that has no signature
C5_Witness ==
  /\ last.op = "verifyCertificate"
  /\ last.target # 0
  /\ last.result = "valid"
  /\ last.prev = "active"
  /\ certs[last.target].digitalSignature = NoSignature
  /\ Len(certs[last.target].verificationHistory) = 1

\* the step is a revoke request that reached the handler and found the
\* certificate last'.target
RevokeFound ==
  /\ last'.op = "revokeCertificate"
  /\ nreq' = nreq + 1
  /\ last'.code \in {"OK", "ALREADY_REVOKED"}

\* C6: revoking an active, not yet revoked certificate succeeds, sets its
\* status to revoked and records revokedAt (the time of the request),
\* revokedBy (the caller) and revocationReason (the reason supplied, or
\* "No reason provided" when none is); a revoke of a certificate that is
\* already revoked fails with ALREADY_REVOKED and leaves the certificate and
\* the audit log as they were.
C6_RevokeOnceThenAlreadyRevoked ==
  [][RevokeFound =>
       LET id == last'.target
       IN /\ certs[id].exists
          /\ certs[id].status = "active" => last'.code = "OK"
          /\ certs[id].status = "revoked" <=> last'.code = "ALREADY_REVOKED"
          /\ last'.code = "OK" =>
               /\ certs'[id].status = "revoked"
               /\ certs'[id].revokedAt = now
               /\ certs'[id].revokedBy = last'.caller
               /\ last'.caller # 0
               /\ certs'[id].revocationReason =
                    (IF last'.result = "" THEN "No reason provided" ELSE last'.result)
               /\ \A c \in CertIds \ {id} : certs'[c] = certs[c]
          /\ last'.code = "ALREADY_REVOKED" =>
               /\ certs' = certs
               /\ audit' = audit]_vars

\* a certificate revoked by a request without a reason has been refused a
\* second revocation
C6_Witness ==
  /\ last.op = "revokeCertificate"
  /\ last.code = "ALREADY_REVOKED"
  /\ certs[last.target].status = "revoked"
  /\ certs[last.target].revokedBy # 0
  /\ certs[last.target].revokedAt # NoTime
  /\ certs[last.target].revocationReason = "No reason provided"

LoginStep ==
  /\ last'.op = "login"
  /\ nreq' = nreq + 1
  /\ last'.target # 0

\* the audit log begins with five failed logins on the account of user u
FiveFailuresFirst(u) ==
  /\ Len(audit) >= 5
  /\ \A i \in 1..5 : audit[i].action = "auth.login_failed" /\ audit[i].performedBy = u

\* C7: a failed password check on an account without a lock adds one to
\* loginAttempts, and the one that brings the counter to 5 sets lockUntil to
\* the time of that failure plus 2 hours (so five consecutive failures from
\* loginAttempts = 0 lock the account at the fifth, not earlier and not
\* later); every login made while lockUntil is in the future ends with
\* ACCOUNT_LOCKED, compares no password and leaves loginAttempts and
\* lockUntil as they were, whatever the password.
C7_LockAfterFiveFailures ==
  [][LoginStep =>
       LET u == last'.target
       IN /\ (users[u].lockUntil # NoTime /\ users[u].lockUntil > now) =>
               /\ last'.code = "ACCOUNT_LOCKED"
               /\ ~last'.compared
               /\ users' = users
          /\ (users[u].lockUntil = NoTime /\ last'.compared
                /\ last'.code = "INVALID_CREDENTIALS") =>
               /\ users'[u].loginAttempts = users[u].loginAttempts + 1
               /\ users'[u].lockUntil =
                    (IF users[u].loginAttempts + 1 >= 5 THEN now + 2 ELSE NoTime)
               /\ users'[u].lockUntil # NoTime => users'[u].lockUntil > now
          /\ (users[u].lockUntil = NoTime /\ users[u].loginAttempts < 5
                /\ users'[u].lockUntil # NoTime) =>
               /\ users[u].loginAttempts = 4
               /\ users'[u].loginAttempts = 5]_vars

\* the account was locked by its fifth failure and a login made during the
\* lock window has been refused
C7_Witness ==
  /\ last.op = "login"
  /\ last.code = "ACCOUNT_LOCKED"
  /\ ~last.compared
  /\ users[last.target].loginAttempts = 5
  /\ users[last.target].lockUntil > now
  /\ FiveFailuresFirst(last.target)
  /\ Len(audit) = 6
  /\ users[last.target].lockUntil = audit[5].timestamp + 2

\* the lock of the account has expired
LockExpired(user) == user.lockUntil # NoTime /\ user.lockUntil < now

\* C8: a login with a wrong password on an active account whose lockUntil
\* has passed (the first login since then) sets loginAttempts to 1 and
\* clears lockUntil: it neither continues from the old count nor locks the
\* account again.
C8_RestartAfterExpiredLock ==
  [][\A u \in UserIds :
       (/\ users[u].exists
        /\ users[u].isActive
        /\ LockExpired(users[u])
        /\ last'.op = "login"
        /\ login(users[u].email, "WrongPassword"))
       => /\ last'.code = "INVALID_CREDENTIALS"
          /\ users'[u].loginAttempts = 1
          /\ users'[u].lockUntil = NoTime]_vars

\* C8 as stated: whatever the state of the account, the first login with a
\* wrong password after lockUntil has passed sets loginAttempts to 1 and
\* clears lockUntil.
C8_RestartWhateverTheAccount ==
  [][\A u \in UserIds :
       (/\ users[u].exists
        /\ LockExpired(users[u])
        /\ last'.op = "login"
        /\ login(users[u].email, "WrongPassword"))
       => /\ users'[u].loginAttempts = 1
          /\ users'[u].lockUntil = NoTime]_vars

\* a wrong password after the lock window of five failures has restarted the
\* count at 1
C8_Witness ==
  /\ last.op = "login"
  /\ last.code = "INVALID_CREDENTIALS"
  /\ last.compared
  /\ users[last.target].loginAttempts = 1
  /\ users[last.target].lockUntil = NoTime
  /\ FiveFailuresFirst(last.target)
  /\ audit[5].timestamp + 2 < last.at

\* C9: a login with the correct password on an active account that is not
\* locked succeeds, returns a token pair, sets loginAttempts to 0, clears
\* lockUntil and stamps lastLogin, whatever the counter and lockUntil were.
C9_SuccessResetsCounterAndLock ==
  [][\A u \in UserIds, p \in Passwords :
       (/\ users[u].exists
        /\ users[u].isActive
        /\ ~(users[u].lockUntil # NoTime /\ users[u].lockUntil > now)
        /\ users[u].password = Hash(p)
        /\ last'.op = "login"
        /\ login(users[u].email, p))
       => /\ last'.code = "OK"
          /\ last'.result = "tokens"
          /\ users'[u].loginAttempts = 0
          /\ users'[u].lockUntil = NoTime
          /\ users'[u].lastLogin = now]_vars

\* a correct password after a lock window has reset the counter and the lock
C9_Witness ==
  /\ last.op = "login"
  /\ last.code = "OK"
  /\ last.result = "tokens"
  /\ users[last.target].loginAttempts = 0
  /\ users[last.target].lockUntil = NoTime
  /\ users[last.target].lastLogin = last.at
  /\ FiveFailuresFirst(last.target)
  /\ audit[5].timestamp + 2 <= last.at

(***************************************************************************)
(* The signature as a function: sign, change a field, verify               *)
(***************************************************************************)
Secrets == {"cert-signing-secret-2024", "another-secret"}

\* what is done to the document between signing and verifying: nothing, an
\* assignment to a checksum input field, or that assignment followed by save()
Changes == {"none", "title", "holder"}

ChangeField(doc, change) ==
  IF change = "title" THEN [doc EXCEPT !.title = "Forged Certificate"]
  ELSE IF change = "holder" THEN [doc EXCEPT !.holder = 1]
  ELSE doc

\* doc.signCertificate(s); doc.<field> = value; [doc.save();]
\* doc.verifySignature(s2) on a loaded copy of the stored certificate c; the
\* copy is written back by save() only
signThenVerify(c, s, s2, change, save) ==
  /\ certs[c].exists
  /\ LET signed == [certs[c] EXCEPT !.digitalSignature = signCertificate(certs[c], s)]
         changed == ChangeField(signed, change)
         doc == IF save THEN PreSave(changed, c, HolderRef(changed.holder)) ELSE changed
     IN /\ certs' = IF save THEN [certs EXCEPT ![c] = doc] ELSE certs
        /\ last' = [ op |-> "verifySignature", target |-> c, signedWith |-> s,
                     verifiedWith |-> s2, change |-> change, saved |-> save,
                     fieldChanged |-> ChangeField(certs[c], change) # certs[c],
                     result |-> verifySignature(doc, s2) ]
  /\ UNCHANGED << users, audit, now, inflight, nreq >>

\* any stored certificate of the fixtures: holder 2, issued by user 1
InitSign ==
  /\ users = [u \in UserIds |->
                IF u = 1 THEN NewUser(1, DefaultPassword, "issuer")
                ELSE IF u = 2 THEN NewUser(2, DefaultPassword, "holder")
                ELSE NoUser]
  /\ \E st \in CERTIFICATE_STATUS, sg \in BOOLEAN, x \in ExpiryChoices :
       LET saved == PreSave(NewCertificate("seed", st, 2, 1, x), 1, HolderRef(2))
       IN certs = [c \in CertIds |->
                     IF c # 1 THEN NoCert
                     ELSE IF sg
                     THEN [saved EXCEPT !.digitalSignature =
                                           signCertificate(saved, SIGNING_SECRET)]
                     ELSE saved]
  /\ audit = << >>
  /\ now = 1
  /\ inflight = NoInflight
  /\ last = NoResponse
  /\ nreq = 0
  /\ auditStore = "up"

NextSign ==
  \/ /\ \E c \in CertIds, s \in Secrets, s2 \in Secrets, change \in Changes,
        save \in BOOLEAN : signThenVerify(c, s, s2, change, save)
     /\ UNCHANGED auditStore

SpecSign == InitSign /\ [][NextSign]_vars

\* C11: after signCertificate(s), verifySignature(s) is true and
\* verifySignature(s2) is false for every other secret s2; and once a
\* checksum input field has been changed after signing, verifySignature(s)
\* is false.
C11_SignVerifyAlgebra ==
  last.op = "verifySignature" =>
    /\ last.change = "none" => (last.result <=> last.verifiedWith = last.signedWith)
    /\ last.verifiedWith # last.signedWith => ~last.result
    /\ (last.fieldChanged /\ last.verifiedWith = last.signedWith) => ~last.result

\* the title was changed after signing, nothing was saved, and verifySignature
\* with the signing secret still answers true
C11_Witness ==
  /\ last.op = "verifySignature"
  /\ last.change = "title"
  /\ last.fieldChanged
  /\ ~last.saved
  /\ last.verifiedWith = last.signedWith
  /\ last.result
  /\ certs[last.target].title # "Forged Certificate"

(***************************************************************************)
(* The whole API while writes to the AuditLog collection may fail          *)
(***************************************************************************)
MaxAuditRequests == 2

\* the AuditLog collection stops accepting writes, and accepts them again
StoreFails ==
  /\ auditStore = "up"
  /\ auditStore' = "down"
  /\ UNCHANGED << users, certs, audit, now, inflight, last, nreq >>

StoreRecovers ==
  /\ auditStore = "down"
  /\ auditStore' = "up"
  /\ UNCHANGED << users, certs, audit, now, inflight, last, nreq >>

NextAudit ==
  \/ /\ inflight.cert = 0 /\ nreq < MaxAuditRequests /\ UserRequest(ValidCredentials)
     /\ UNCHANGED auditStore
  \/ /\ inflight.cert = 0 /\ nreq < MaxAuditRequests /\ CertificateRequest(ValidCredentials)
     /\ UNCHANGED auditStore
  \/ /\ createCertificate_sign
     /\ UNCHANGED auditStore
  \/ StoreFails
  \/ StoreRecovers

SpecAudit == InitCert /\ [][NextAudit]_vars

\* the step handles a request (or one of the two halves of createCertificate)
RequestStep == nreq' = nreq + 1 \/ inflight' # inflight

\* C12: while writes to the audit store fail, AuditLog.log raises nothing to
\* its caller: every request is handled to its own response, with its own
\* effect on users and certificates (a revoke revokes, a role assignment
\* assigns, a create stores and signs, a login resets the counter, a refusal
\* refuses with the code of its cause), and the only difference is that the
\* audit log receives no entry.
C12_AuditFailureNeverRaises ==
  [][(auditStore = "down" /\ auditStore' = "down" /\ RequestStep) =>
       /\ audit' = audit
       /\ last'.http = 500 =>
            (VerifyFound /\ verificationResult(certs[last'.target]) \notin HISTORY_RESULTS)
       /\ \A token \in ValidCredentials, permission \in StepPermissions :
            (inflight.cert = 0 /\ ~Authorized(token, permission)
               /\ ProtectedRequest(token, permission))
            => (last'.code = RefusalCode(token, permission)
                  /\ users' = users /\ certs' = certs)
       /\ (RevokeFound /\ certs[last'.target].status # "revoked") =>
            (last'.code = "OK" /\ certs'[last'.target].status = "revoked")
       /\ (last'.op = "assignRole" /\ nreq' = nreq + 1 /\ last'.role = "super_admin"
             /\ users[last'.target].exists) =>
            (last'.code = "OK" /\ users'[last'.target].role = last'.result)
       /\ (inflight.cert # 0 /\ inflight'.cert = 0) =>
            (last'.code = "OK" /\ certs'[inflight.cert].status = "active"
               /\ certs'[inflight.cert].digitalSignature # NoSignature)
       /\ (LoginStep /\ last'.compared) =>
            IF users[last'.target].password = Hash(DefaultPassword) /\ last'.code = "OK"
            THEN users'[last'.target] = resetLoginAttempts(users[last'.target])
            ELSE /\ last'.code = "INVALID_CREDENTIALS"
                 /\ users'[last'.target].loginAttempts # users[last'.target].loginAttempts]_vars

\* a certificate has been revoked while the audit store was failing: the
\* response is OK, the certificate is revoked, and the log has no entry of it
C12_Witness ==
  /\ auditStore = "down"
  /\ last.op = "revokeCertificate"
  /\ last.code = "OK"
  /\ certs[last.target].status = "revoked"
  /\ certs[last.target].revokedBy = last.caller
  /\ audit = << >>

(***************************************************************************)
(* Reading and exporting one certificate                                   *)
(* (controllers/certificateController.js, routes/certificateRoutes.js)     *)
(***************************************************************************)
MaxAccessRequests == 2

\* certificate.holder after populate('holder', ...): null when the user
\* document is gone, so that certificate.holder._id throws a TypeError
HolderIsNull(id) == ~users[certs[id].holder].exists

\* GET /api/certificates/:id
getCertificate(token, id) ==
  LET g == authorizeAny(token, << "certificate:read", "certificate:read:own" >>)
  IN IF ~g.ok THEN Refused("getCertificate", g, id)
     ELSE /\ IF ~certs[id].exists
             THEN /\ last' = Response("getCertificate", g.uid, "CERT_NOT_FOUND", 404,
                                      id, "none", "none", FALSE)
                  /\ UNCHANGED audit
             ELSE IF /\ ~hasPermission(users[g.uid].role, "certificate:read")
                     /\ hasPermission(users[g.uid].role, "certificate:read:own")
                     /\ HolderIsNull(id)
             THEN /\ last' = Response("getCertificate", g.uid, "none", 500,
                                      id, "none", "none", FALSE)
                  /\ UNCHANGED audit
             ELSE IF /\ ~hasPermission(users[g.uid].role, "certificate:read")
                     /\ hasPermission(users[g.uid].role, "certificate:read:own")
                     /\ certs[id].holder # g.uid
             THEN /\ audit' = AuditLog_log(audit,
                      AuditEntry("certificate.access_denied", "warning", g.uid, FALSE))
                  /\ last' = Response("getCertificate", g.uid, "NOT_OWNER", 403,
                                      id, "none", "none", FALSE)
             ELSE /\ audit' = AuditLog_log(audit,
                      AuditEntry("certificate.view", "info", g.uid, TRUE))
                  /\ last' = Response("getCertificate", g.uid, "OK", 200,
                                      id, "certificate", "none", FALSE)
          /\ nreq' = nreq + 1
          /\ UNCHANGED << users, certs, now, inflight >>

\* GET /api/certificates/:id/export; the 404 and the 403 of the handler
\* carry no code
exportCertificate(token, id) ==
  LET g == authorizeAny(token, << "certificate:export", "certificate:read:own" >>)
  IN IF ~g.ok THEN Refused("exportCertificate", g, id)
     ELSE /\ IF ~certs[id].exists
             THEN /\ last' = Response("exportCertificate", g.uid, "none", 404,
                                      id, "none", "none", FALSE)
                  /\ UNCHANGED audit
             ELSE IF /\ ~hasPermission(users[g.uid].role, "certificate:export")
                     /\ HolderIsNull(id)
             THEN /\ last' = Response("exportCertificate", g.uid, "none", 500,
                                      id, "none", "none", FALSE)
                  /\ UNCHANGED audit
             ELSE IF /\ ~hasPermission(users[g.uid].role, "certificate:export")
                     /\ certs[id].holder # g.uid
             THEN /\ last' = Response("exportCertificate", g.uid, "none", 403,
                                      id, "none", "none", FALSE)
                  /\ UNCHANGED audit
             ELSE /\ audit' = AuditLog_log(audit,
                      AuditEntry("certificate.export", "info", g.uid, TRUE))
                  /\ last' = Response("exportCertificate", g.uid, "OK", 200,
                                      id, "exportData", "none", FALSE)
          /\ nreq' = nreq + 1
          /\ UNCHANGED << users, certs, now, inflight >>

\* router.use(authenticate) followed by authorizeOwnerOrAdmin(adminPermission)
authorizeOwnerOrAdmin(token, targetId, adminPermission) ==
  LET a == authenticate(token)
  IN IF ~a.ok THEN a
     ELSE IF a.uid # targetId /\ ~hasPermission(users[a.uid].role, adminPermission)
     THEN [ok |-> FALSE, code |-> "OWNERSHIP_REQUIRED", http |-> 403, uid |-> a.uid,
           log |-> AuditLog_log(audit,
                     AuditEntry("security.forbidden", "warning", a.uid, FALSE))]
     ELSE a

\* GET /api/users/:id; the 404 carries no code
getUser(token, id) ==
  LET g == authorizeOwnerOrAdmin(token, id, "user:read")
  IN IF ~g.ok THEN Refused("getUser", g, id)
     ELSE /\ last' = IF users[id].exists
                     THEN Response("getUser", g.uid, "OK", 200, id, "user", "none", FALSE)
                     ELSE Response("getUser", g.uid, "none", 404, id, "none", "none", FALSE)
          /\ nreq' = nreq + 1
          /\ UNCHANGED << users, certs, audit, now, inflight >>

\* user 1 is a super_admin, user 2 has any role, user 3 is a holder;
\* certificate 1 is signed, active and held by user 3
InitAccess ==
  /\ \E r \in ROLES :
       users = [u \in UserIds |->
                  IF u = 1 THEN NewUser(1, DefaultPassword, "super_admin")
                  ELSE IF u = 2 THEN NewUser(2, DefaultPassword, r)
                  ELSE NewUser(u, DefaultPassword, "holder")]
  /\ LET saved == PreSave(NewCertificate("seed", "active", 3, 1, NoTime), 1, HolderRef(3))
     IN certs = [c \in CertIds |->
                   IF c = 1
                   THEN [saved EXCEPT !.digitalSignature = signCertificate(saved, SIGNING_SECRET)]
                   ELSE NoCert]
  /\ audit = << >>
  /\ now = 1
  /\ inflight = NoInflight
  /\ last = NoResponse
  /\ nreq = 0
  /\ auditStore = "up"

AccessRequest(T) ==
  \/ \E t \in T, c \in CertIds : getCertificate(t, c)
  \/ \E t \in T, c \in CertIds : exportCertificate(t, c)
  \/ \E t \in T, u \in UserIds : getUser(t, u)

\* every route behind authenticate, with every kind of Authorization header
NextAccess ==
  \/ /\ nreq < MaxAccessRequests /\ AccessRequest(SomeCredentials)
     /\ UNCHANGED auditStore
  \/ /\ nreq < MaxAccessRequests /\ UserRequest(SomeCredentials)
     /\ UNCHANGED auditStore
  \/ /\ nreq < MaxAccessRequests /\ \E t \in SomeCredentials, c \in CertIds, r \in Reasons :
          revokeCertificate(t, c, r)
     /\ UNCHANGED auditStore

SpecAccess == InitAccess /\ [][NextAccess]_vars

\* the entry the request has appended: the last of the log, when it grew by one
Appended == audit'[Len(audit')]

AppendedOne == Len(audit') = Len(audit) + 1

\* C13: every 403 refusal (PERMISSION_DENIED, ROLE_DENIED, OWNERSHIP_REQUIRED,
\* INSUFFICIENT_PRIVILEGE, a holder reading or exporting a certificate that
\* is not theirs) appends exactly one audit entry, of severity warning, that
\* records the caller's id, email and role.
C13_Every403IsAudited ==
  [][(nreq' = nreq + 1 /\ last'.http = 403) =>
       /\ AppendedOne
       /\ Appended.severity = "warning"
       /\ Appended.performedBy = last'.caller
       /\ Appended.performedByEmail = users[last'.caller].email
       /\ Appended.performedByRole = users[last'.caller].role]_vars

\* a holder has been refused the export of a certificate held by someone
\* else, and the log is still empty
C13_Witness ==
  /\ last.op = "exportCertificate" /\ last.http = 403
  /\ last.role = "holder" /\ certs[last.target].holder # last.caller
  /\ audit = << >>

\* what does hold: the refusals of the four middlewares and the NOT_OWNER of
\* getCertificate append one warning entry that names the caller
C13_CodedRefusalsAreAudited ==
  [][(nreq' = nreq + 1 /\ last'.http = 403
        /\ last'.code \in {"PERMISSION_DENIED", "ROLE_DENIED", "OWNERSHIP_REQUIRED",
                           "NOT_OWNER"}) =>
       /\ AppendedOne
       /\ Appended.severity = "warning"
       /\ Appended.performedBy = last'.caller
       /\ Appended.performedByEmail = users[last'.caller].email
       /\ Appended.performedByRole = users[last'.caller].role]_vars

(***************************************************************************)
(* The severity of audit entries                                           *)
(***************************************************************************)
MaxSeverityRequests == 2

\* an account after MAX_ATTEMPTS failed logins in a row at time `now`
LockedOut(user) ==
  [user EXCEPT !.loginAttempts = MAX_ATTEMPTS, !.lockUntil = 1 + LOCK_TIME]

\* user 1 may do everything; user 2 is an admin or a holder whose account
\* may have been locked by failed logins
InitSeverity ==
  /\ \E r \in {"admin", "holder"}, locked \in BOOLEAN :
       users = [u \in UserIds |->
                  IF u = 1 THEN NewUser(1, DefaultPassword, "super_admin")
                  ELSE IF u = 2
                  THEN IF locked THEN LockedOut(NewUser(2, DefaultPassword, r))
                       ELSE NewUser(2, DefaultPassword, r)
                  ELSE NoUser]
  /\ EmptyStore

NextSeverity ==
  \/ /\ inflight.cert = 0 /\ nreq < MaxSeverityRequests /\ UserRequest(ValidCredentials)
     /\ UNCHANGED auditStore
  \/ /\ inflight.cert = 0 /\ nreq < MaxSeverityRequests
     /\ CertificateRequest(ValidCredentials)
     /\ UNCHANGED auditStore
  \/ /\ createCertificate_sign
     /\ UNCHANGED auditStore

SpecSeverity == InitSeverity /\ [][NextSeverity]_vars

\* the request that has just been answered changed users or certs on behalf
\* of its caller
SuccessfulMutation ==
  /\ last'.code = "OK"
  /\ last'.op \in {"register", "login", "createUser", "assignRole", "toggleUserStatus",
                   "deleteUser", "createCertificate", "revokeCertificate"}

\* the severity the mapping gives to the request just answered; lockedLogin
\* is the severity of a login refused because the account is locked
MappedSeverity(lockedLogin) ==
  IF last'.code = "ACCOUNT_LOCKED" THEN lockedLogin
  ELSE IF last'.http \in {401, 403, 404} THEN "warning"
  ELSE IF last'.op \in {"deleteUser", "revokeCertificate"} THEN "critical"
  ELSE IF last'.op \in {"assignRole", "toggleUserStatus"} THEN "warning"
  ELSE "info"

SeverityMapping(lockedLogin) ==
  nreq' = nreq + 1 =>
    /\ audit' = audit \/ (AppendedOne /\ SubSeq(audit', 1, Len(audit)) = audit)
    /\ SuccessfulMutation => AppendedOne
    /\ AppendedOne => Appended.severity = MappedSeverity(lockedLogin)

\* C14 as the code has it: every successful mutation appends exactly one
\* entry; creation, registration, login, verification are info; role
\* assignment, deactivation and activation are warning; user deletion and
\* revocation are critical; refusals are warning, except the login on a
\* locked account, which is critical.
C14_SeverityMapping == [][SeverityMapping("critical")]_vars

\* C14 as stated: the same, with the login attempt on a locked account
\* logged as warning like every other denied-access event.
C14_LockedLoginIsWarning == [][SeverityMapping("warning")]_vars

\* a login on the locked account has been refused and logged
C14_Witness ==
  /\ last.op = "login" /\ last.code = "ACCOUNT_LOCKED"
  /\ isLocked(users[last.target])
  /\ Len(audit) > 0
  /\ audit[Len(audit)].action = "auth.account_locked"
  /\ audit[Len(audit)].severity = "critical"

(***************************************************************************)
(* Authentication failures                                                 *)
(***************************************************************************)
\* the request just answered was ended by authenticate, or was a login on
\* an account that is not active
AuthenticationFailure ==
  /\ nreq' = nreq + 1
  /\ \/ last'.code \in {"AUTH_REQUIRED", "TOKEN_INVALID", "TOKEN_EXPIRED",
                        "TOKEN_TYPE_INVALID", "ACCOUNT_INACTIVE"}
     \/ last'.code = "USER_NOT_FOUND" /\ last'.caller = 0 /\ last'.op # "login"

\* C15: every authentication failure (missing, invalid, expired or
\* wrong-type token, token of a user who no longer exists, inactive account
\* at authenticate or at login) is answered 401 and appends exactly one
\* audit entry.
C15_AuthenticationFailuresAreAudited ==
  [][AuthenticationFailure => (last'.http = 401 /\ AppendedOne)]_vars

\* what does hold: every authentication failure is answered 401, and the
\* missing, invalid and expired token and the inactive account at
\* authenticate append one warning entry
C15_TokenFailuresAreAudited ==
  [][AuthenticationFailure =>
       /\ last'.http = 401
       /\ (last'.code \in {"AUTH_REQUIRED", "TOKEN_INVALID", "TOKEN_EXPIRED"}
             \/ (last'.code = "ACCOUNT_INACTIVE" /\ last'.op # "login"))
          => (AppendedOne /\ Appended.action = "security.unauthorized"
                /\ Appended.severity = "warning")]_vars

\* the token of a deleted user has been refused with USER_NOT_FOUND, and the
\* log holds nothing but the deletion
C15_Witness ==
  /\ last.code = "USER_NOT_FOUND" /\ last.http = 401 /\ last.caller = 0
  /\ \E u \in UserIds : users[u].gone
  /\ Len(audit) = 1 /\ audit[1].action = "user.delete"

(***************************************************************************)
(* Sessions: logout and refresh (controllers/authController.js)            *)
(***************************************************************************)
MaxSessionRequests == 4

ExpiredRefreshToken(u) == [type |-> "refresh", uid |-> u, expired |-> TRUE]

\* jwt.verify(token, JWT_REFRESH_SECRET, {issuer}): an access token is
\* signed with JWT_SECRET, which the deployment keeps different
verifyRefreshToken(token) ==
  CASE token.type = "garbage" -> "JsonWebTokenError"
    [] token.type = "access" -> "JsonWebTokenError"
    [] token.type = "refresh" /\ token.expired -> "TokenExpiredError"
    [] OTHER -> "decoded"

\* POST /api/auth/logout
logout(token) ==
  LET g == authenticate(token)
  IN IF ~g.ok THEN Refused("logout", g, 0)
     ELSE /\ audit' = AuditLog_log(audit, AuditEntry("auth.logout", "info", g.uid, TRUE))
          /\ last' = Response("logout", g.uid, "OK", 200, g.uid, "none", "none", FALSE)
          /\ nreq' = nreq + 1
          /\ UNCHANGED << users, certs, now, inflight >>

\* a plausible slip: a refresh token is refused once its owner has logged out
refreshToken_RevokedByLogout(token) ==
  /\ IF token.type = "none"
     THEN /\ last' = Response("refreshToken", 0, "VALIDATION_ERROR", 422,
                              0, "none", "none", FALSE)
          /\ UNCHANGED audit
     ELSE IF verifyRefreshToken(token) # "decoded"
             \/ \E i \in 1..Len(audit) :
                  audit[i].action = "auth.logout" /\ audit[i].performedBy = token.uid
     THEN /\ last' = Response("refreshToken", 0, "REFRESH_TOKEN_INVALID", 401,
                              0, "none", "none", FALSE)
          /\ UNCHANGED audit
     ELSE IF ~users[token.uid].exists \/ ~users[token.uid].isActive
     THEN /\ last' = Response("refreshToken", 0, "USER_INACTIVE", 401,
                              token.uid, "none", "none", FALSE)
          /\ UNCHANGED audit
     ELSE /\ audit' = AuditLog_log(audit,
                        AuditEntry("auth.token_refresh", "info", token.uid, TRUE))
          /\ last' = Response("refreshToken", 0, "OK", 200,
                              token.uid, "tokens", "none", FALSE)
  /\ nreq' = nreq + 1
  /\ UNCHANGED << users, certs, now, inflight >>

\* POST /api/auth/refresh; token is the refreshToken of the body, which the
\* route validator requires not to be empty
refreshToken(token) ==
  /\ IF token.type = "none"
     THEN /\ last' = Response("refreshToken", 0, "VALIDATION_ERROR", 422,
                              0, "none", "none", FALSE)
          /\ UNCHANGED audit
     ELSE IF verifyRefreshToken(token) # "decoded"
     THEN /\ last' = Response("refreshToken", 0, "REFRESH_TOKEN_INVALID", 401,
                              0, "none", "none", FALSE)
          /\ UNCHANGED audit
     ELSE IF ~users[token.uid].exists \/ ~users[token.uid].isActive
     THEN /\ last' = Response("refreshToken", 0, "USER_INACTIVE", 401,
                              token.uid, "none", "none", FALSE)
          /\ UNCHANGED audit
     ELSE /\ audit' = AuditLog_log(audit,
                        AuditEntry("auth.token_refresh", "info", token.uid, TRUE))
          /\ last' = Response("refreshToken", 0, "OK", 200,
                              token.uid, "tokens", "none", FALSE)
  /\ nreq' = nreq + 1
  /\ UNCHANGED << users, certs, now, inflight >>

\* what user 2 may send: nothing, garbage, or a token of a pair that a login
\* gave them
SessionTokens ==
  {NoToken, GarbageToken, AccessToken(2), ExpiredAccessToken(2), RefreshToken(2),
   ExpiredRefreshToken(2)}

\* a request of user 2 to a route behind authenticate
SessionRequest(token) ==
  \/ logout(token)
  \/ getUsers(token)
  \/ \E u \in UserIds : getUser(token, u)
  \/ \E c \in CertIds : getCertificate(token, c)
  \/ \E c \in CertIds, r \in Reasons : revokeCertificate(token, c, r)

\* user 2 logs in, uses and refreshes the session and logs out, while the
\* super_admin deactivates, activates or deletes the account
NextSession ==
  \/ /\ nreq < MaxSessionRequests /\ \E p \in Passwords : login(2, p)
     /\ UNCHANGED auditStore
  \/ /\ nreq < MaxSessionRequests /\ \E t \in SessionTokens : SessionRequest(t)
     /\ UNCHANGED auditStore
  \/ /\ nreq < MaxSessionRequests /\ \E t \in SessionTokens : refreshToken(t)
     /\ UNCHANGED auditStore
  \/ /\ nreq < MaxSessionRequests
     /\ \E a \in BOOLEAN : toggleUserStatus(AccessToken(1), 2, a)
     /\ UNCHANGED auditStore
  \/ /\ nreq < MaxSessionRequests /\ deleteUser(AccessToken(1), 2)
     /\ UNCHANGED auditStore

SpecSession == InitAccess /\ [][NextSession]_vars

\* C16: while a user's isActive flag is false, every request with that
\* user's otherwise valid access token ends at authenticate with
\* ACCOUNT_INACTIVE and changes nothing, no handler runs on that user's
\* behalf, and neither login nor refresh gives that user a token pair; the
\* token may have been issued before the deactivation, and the refusal lasts
\* as long as the flag is false.
C16_InactiveAccountIsShutOut ==
  [][nreq' = nreq + 1 =>
       \A u \in UserIds :
         (users[u].exists /\ ~users[u].isActive) =>
           /\ last'.caller # u
           /\ (last'.op \in {"login", "refreshToken"} /\ last'.target = u)
                => (last'.code # "OK" /\ last'.result # "tokens")
           /\ SessionRequest(AccessToken(u)) =>
                /\ last'.code = "ACCOUNT_INACTIVE"
                /\ last'.http = 401
                /\ users' = users /\ certs' = certs]_vars

\* user 2 logged in, was deactivated afterwards, and a request with the
\* access token of that login has been refused
C16_Witness ==
  /\ Len(audit) = 3
  /\ audit[1].action = "auth.login" /\ audit[1].performedBy = 2
  /\ audit[2].action = "user.deactivate"
  /\ ~users[2].isActive
  /\ last.code = "ACCOUNT_INACTIVE"
  /\ last.op \in {"logout", "getUsers", "getUser", "getCertificate", "revokeCertificate"}

(***************************************************************************)
(* The token type under any pair of signing secrets (utils/jwt.js)         *)
(***************************************************************************)
\* values of JWT_SECRET and of JWT_REFRESH_SECRET
JwtSecrets ==
  {"test-secret-key-2024", "test-refresh-secret-2024",
   "cert-rbac-super-secret-change-in-production-2024"}

\* generateAccessToken: signed with JWT_SECRET, with an audience
generateAccessToken(u, expired, JWT_SECRET) ==
  [type |-> "access", uid |-> u, expired |-> expired, key |-> JWT_SECRET, aud |-> TRUE]

\* generateRefreshToken: signed with JWT_REFRESH_SECRET, without audience
generateRefreshToken(u, expired, JWT_REFRESH_SECRET) ==
  [type |-> "refresh", uid |-> u, expired |-> expired, key |-> JWT_REFRESH_SECRET,
   aud |-> FALSE]

\* jwt.verify(token, secretOrPublicKey, options): the signature, then the
\* expiry, then the audience when options names one
jwt_verify(token, secretOrPublicKey, audience) ==
  IF token.key # secretOrPublicKey THEN "JsonWebTokenError"
  ELSE IF token.expired THEN "TokenExpiredError"
  ELSE IF audience /\ ~token.aud THEN "JsonWebTokenError"
  ELSE "decoded"

\* authenticate, from verifyAccessToken to the test of decoded.type
authenticate_token(token, JWT_SECRET) ==
  LET v == jwt_verify(token, JWT_SECRET, TRUE)
  IN IF v = "TokenExpiredError" THEN "TOKEN_EXPIRED"
     ELSE IF v # "decoded" THEN "TOKEN_INVALID"
     ELSE IF token.type # "access" THEN "TOKEN_TYPE_INVALID"
     ELSE "next"

\* refreshToken, from verifyRefreshToken to User.findById(decoded.userId):
\* decoded.type is not read
refreshToken_token(token, JWT_REFRESH_SECRET) ==
  LET v == jwt_verify(token, JWT_REFRESH_SECRET, FALSE)
  IN IF v # "decoded" THEN "REFRESH_TOKEN_INVALID"
     ELSE "next"

InitToken ==
  /\ users = [u \in UserIds |-> NoUser]
  /\ EmptyStore

\* a token of a pair made under the two secrets is presented to authenticate
\* or to refresh
presentToken(op, type, u, expired, JWT_SECRET, JWT_REFRESH_SECRET) ==
  /\ LET token == IF type = "access" THEN generateAccessToken(u, expired, JWT_SECRET)
                  ELSE generateRefreshToken(u, expired, JWT_REFRESH_SECRET)
     IN last' = [ op |-> op, token |-> token,
                  jwtSecret |-> JWT_SECRET, jwtRefreshSecret |-> JWT_REFRESH_SECRET,
                  code |-> IF op = "authenticate"
                           THEN authenticate_token(token, JWT_SECRET)
                           ELSE refreshToken_token(token, JWT_REFRESH_SECRET) ]
  /\ UNCHANGED << users, certs, audit, now, inflight, nreq >>

NextToken ==
  \/ /\ \E op \in {"authenticate", "refreshToken"}, type \in {"access", "refresh"},
          u \in UserIds, expired \in BOOLEAN, s \in JwtSecrets, r \in JwtSecrets :
          presentToken(op, type, u, expired, s, r)
     /\ UNCHANGED auditStore

SpecToken == InitToken /\ [][NextToken]_vars

\* the token presented is of the other type
WrongType ==
  /\ last.op \in {"authenticate", "refreshToken"}
  /\ \/ last.op = "authenticate" /\ last.token.type = "refresh"
     \/ last.op = "refreshToken" /\ last.token.type = "access"

\* C17: a token whose type does not match the operation is never accepted
\* and is reported as TOKEN_TYPE_INVALID: authenticate rejects every refresh
\* token and refresh rejects every access token, whatever the two signing
\* secrets are.
C17_WrongTypeIsTokenTypeInvalid ==
  WrongType => last.code = "TOKEN_TYPE_INVALID"

\* what does hold: authenticate lets no refresh token through, and refresh
\* lets no access token through when the two secrets differ; the refusals
\* are TOKEN_INVALID, TOKEN_EXPIRED and REFRESH_TOKEN_INVALID
C17_WrongTypeRefusedUnderDistinctSecrets ==
  WrongType =>
    /\ last.op = "authenticate" => last.code \in {"TOKEN_INVALID", "TOKEN_EXPIRED"}
    /\ (last.op = "refreshToken" /\ last.jwtSecret # last.jwtRefreshSecret)
         => last.code = "REFRESH_TOKEN_INVALID"

\* with one secret for both, refresh has let an unexpired access token through
C17_Witness ==
  /\ last.op = "refreshToken"
  /\ last.token.type = "access" /\ ~last.token.expired
  /\ last.jwtSecret = last.jwtRefreshSecret
  /\ last.code = "next"

MaxRoleRequests == 3

\* generateAccessToken({userId, email, role}): the payload carries the role
\* the user had when the pair was made
IssuedAccessToken(u, role) ==
  [type |-> "access", uid |-> u, expired |-> FALSE, role |-> role]

\* the access tokens logins have given out so far: each successful login is
\* in the audit log with the user's role at that time
IssuedTokens ==
  { IssuedAccessToken(audit[i].performedBy, audit[i].performedByRole) :
      i \in {j \in 1..Len(audit) : audit[j].action = "auth.login"} }

\* user 2 logs in and uses the token on protected routes, while the
\* super_admin changes the role of user 2
NextRole ==
  \/ /\ nreq < MaxRoleRequests /\ login(2, DefaultPassword)
     /\ UNCHANGED auditStore
  \/ /\ nreq < MaxRoleRequests
     /\ \E r \in ROLES : assignRole(IssuedAccessToken(1, "super_admin"), 2, r)
     /\ UNCHANGED auditStore
  \/ /\ nreq < MaxRoleRequests /\ \E t \in IssuedTokens : getUsers(t)
     /\ UNCHANGED auditStore
  \/ /\ nreq < MaxRoleRequests /\ \E t \in IssuedTokens : getAuditLogs(t)
     /\ UNCHANGED auditStore
  \/ /\ nreq < MaxRoleRequests
     /\ \E t \in IssuedTokens, c \in CertIds, r \in Reasons : revokeCertificate(t, c, r)
     /\ UNCHANGED auditStore
  \/ /\ nreq < MaxRoleRequests
     /\ \E t \in IssuedTokens, u \in UserIds, r \in ROLES : assignRole(t, u, r)
     /\ UNCHANGED auditStore

SpecRole == InitAccess /\ [][NextRole]_vars

\* a request with an issued token `token` to a route that requires
\* `permission` is let through exactly when `role` holds the permission
AuthorizedBy(token, permission, role) ==
  (users[token.uid].exists /\ users[token.uid].isActive
     /\ ProtectedRequest(token, permission))
  => (last'.code # "PERMISSION_DENIED" <=> hasPermission(role, permission))

\* C19 as the code has it: a request with an access token issued before a
\* role change is authorized by the role the store holds for the user at the
\* time of the request; the role in the token's payload is not consulted.
C19_LiveRoleAuthorizes ==
  [][\A token \in IssuedTokens, permission \in StepPermissions :
       AuthorizedBy(token, permission, users[token.uid].role)]_vars

\* C19 as stated: a request with an access token issued before a role
\* change is authorized by the old role embedded in the token.
C19_TokenRoleAuthorizes ==
  [][\A token \in IssuedTokens, permission \in StepPermissions :
       AuthorizedBy(token, permission, token.role)]_vars

\* user 2 logged in as a holder, was made an issuer, and the token of that
\* login has just been let through to the list of users
C19_Witness ==
  /\ Len(audit) = 2
  /\ audit[1].action = "auth.login" /\ audit[1].performedBy = 2
  /\ audit[1].performedByRole = "holder"
  /\ audit[2].action = "user.role_assign"
  /\ users[2].role = "issuer"
  /\ last.op = "getUsers" /\ last.caller = 2 /\ last.code = "OK"

(***************************************************************************)
(* From registration to revocation                                         *)
(***************************************************************************)
MaxScenarioRequests == 6

\* the message of the verify response
verificationMessage(doc) ==
  CASE verificationResult(doc) = "revoked" ->
         << "Certificate has been revoked. Reason: ", doc.revocationReason >>
    [] verificationResult(doc) = "suspended" -> << "Certificate is currently suspended." >>
    [] verificationResult(doc) = "expired" -> << "Certificate expired on ", doc.expiresAt >>
    [] verificationResult(doc) = "invalid" /\ doc.status # "active" ->
         << "Certificate is not active." >>
    [] verificationResult(doc) = "invalid" /\ doc.status = "active" ->
         << "Certificate signature verification failed. Data may have been tampered." >>
    [] OTHER -> << "Certificate is valid and authentic." >>

\* the store holds one issuer
InitScenario ==
  /\ users = [u \in UserIds |->
                IF u = 1 THEN NewUser(1, DefaultPassword, "issuer") ELSE NoUser]
  /\ EmptyStore

\* a holder registers with email 2 and logs in; the issuer creates
\* certificates for that email and revokes them; anyone verifies
NextScenario ==
  \/ /\ inflight.cert = 0 /\ nreq < MaxScenarioRequests /\ register(2)
     /\ UNCHANGED auditStore
  \/ /\ inflight.cert = 0 /\ nreq < MaxScenarioRequests /\ login(2, DefaultPassword)
     /\ UNCHANGED auditStore
  \/ /\ inflight.cert = 0 /\ nreq < MaxScenarioRequests
     /\ \E x \in ExpiryChoices : createCertificate(AccessToken(1), 2, x)
     /\ UNCHANGED auditStore
  \/ /\ createCertificate_sign
     /\ UNCHANGED auditStore
  \/ /\ inflight.cert = 0 /\ nreq < MaxScenarioRequests
     /\ \E k \in TokenChoices : verifyCertificate(k, TRUE)
     /\ UNCHANGED auditStore
  \/ /\ inflight.cert = 0 /\ nreq < MaxScenarioRequests
     /\ \E c \in CertIds, r \in Reasons : revokeCertificate(AccessToken(1), c, r)
     /\ UNCHANGED auditStore
  \/ /\ inflight.cert = 0 /\ Tick
     /\ UNCHANGED auditStore

SpecScenario == InitScenario /\ [][NextScenario]_vars

\* C20: the certificate an issuer creates for a registered holder is active
\* with a non-empty signature; the first public verify by its token, while
\* it is not expired, answers valid; once the issuer has revoked it with a
\* reason, the certificate stays revoked with that reason, and every later
\* public verify by the same token answers revoked with the reason in its
\* message, never valid.
C20_CreateVerifyRevokeVerify ==
  [][/\ (inflight.cert # 0 /\ inflight'.cert = 0) =>
          /\ last'.code = "OK"
          /\ certs'[inflight.cert].status = "active"
          /\ certs'[inflight.cert].digitalSignature # NoSignature
          /\ users[certs'[inflight.cert].holder].email = 2
     /\ (VerifyFound /\ certs[last'.target].origin = "create"
           /\ certs[last'.target].status = "active"
           /\ certs[last'.target].verificationHistory = << >>
           /\ ~isExpired(certs[last'.target]))
          => (last'.http = 200 /\ last'.result = "valid")
     /\ (RevokeFound /\ last'.code = "OK") =>
          /\ certs'[last'.target].status = "revoked"
          /\ certs'[last'.target].revocationReason = ReasonOrDefault(last'.result)
     /\ \A c \in CertIds :
          certs[c].status = "revoked" =>
            /\ certs'[c].status = "revoked"
            /\ certs'[c].revocationReason = certs[c].revocationReason
     /\ (VerifyFound /\ certs[last'.target].status = "revoked") =>
          /\ last'.http = 200
          /\ last'.result = "revoked"
          /\ verificationMessage(certs[last'.target])
               = << "Certificate has been revoked. Reason: ",
                    certs[last'.target].revocationReason >>]_vars

\* the holder registered and logged in, the issuer created the certificate,
\* a verify answered valid, the issuer revoked it for "policy violation",
\* and a verify has just answered revoked
C20_Witness ==
  /\ Len(audit) = 6
  /\ audit[1].action = "auth.register" /\ audit[2].action = "auth.login"
  /\ audit[3].action = "certificate.create" /\ audit[4].action = "certificate.verify"
  /\ audit[5].action = "certificate.revoke" /\ audit[6].action = "certificate.verify"
  /\ last.op = "verifyCertificate" /\ last.result = "revoked"
  /\ certs[last.target].verificationHistory = << "valid", "revoked" >>
  /\ certs[last.target].revocationReason = "policy violation"

(***************************************************************************)
(* What every verify call records                                          *)
(***************************************************************************)
\* the step is a verify request
VerifyStep == last'.op = "verifyCertificate" /\ nreq' = nreq + 1

\* C21: every public verify call that finds a certificate, whatever its
\* status and whatever the result, answers valid, revoked, expired,
\* suspended or invalid, appends exactly one entry with that result to the
\* certificate's verificationHistory and appends exactly one audit entry; a
\* call whose token matches no certificate answers invalid and appends
\* exactly one certificate.verify_failed audit entry; no caller is needed.
C21_EveryVerifyIsRecorded ==
  [][VerifyStep =>
       /\ last'.caller = 0
       /\ AppendedOne
       /\ IF last'.target = 0
          THEN /\ last'.result = "invalid"
               /\ Appended.action = "certificate.verify_failed"
               /\ certs' = certs
          ELSE /\ last'.result \in {"valid", "revoked", "expired", "suspended", "invalid"}
               /\ certs'[last'.target].verificationHistory
                    = Append(certs[last'.target].verificationHistory, last'.result)]_vars

\* what does hold: the same, for certificates that are not suspended
C21_VerifyIsRecordedUnlessSuspended ==
  [][(VerifyStep /\ (last'.target # 0 => certs[last'.target].status # "suspended")) =>
       /\ last'.caller = 0
       /\ AppendedOne
       /\ IF last'.target = 0
          THEN /\ last'.result = "invalid"
               /\ Appended.action = "certificate.verify_failed"
               /\ certs' = certs
          ELSE /\ last'.result \in {"valid", "revoked", "expired", "invalid"}
               /\ Appended.action = "certificate.verify"
               /\ certs'[last'.target].verificationHistory
                    = Append(certs[last'.target].verificationHistory, last'.result)]_vars

\* a verify of a suspended certificate has been answered 500, and neither
\* the history nor the audit log has an entry for it
C21_Witness ==
  /\ last.op = "verifyCertificate" /\ last.http = 500 /\ last.result = "error"
  /\ last.target # 0
  /\ certs[last.target].status = "suspended"
  /\ certs[last.target].verificationHistory = << >>
  /\ \A i \in 1..Len(audit) : audit[i].action # "certificate.verify"

(***************************************************************************)
(* Deleting users                                                          *)
(***************************************************************************)
\* the step is a delete request
DeleteStep == last'.op = "deleteUser" /\ nreq' = nreq + 1

MaxRegisterRequests == 2

\* what the body of a registration may carry as `role`
BodyRoles == {""} \cup ROLES

\* a plausible slip: register takes the role from the body like createUser
\* does (role || ROLES.HOLDER)
registerBody_RoleFromBody(email, role) ==
  /\ IF FindByEmail(email) # 0
     THEN /\ last' = Response("register", 0, "EMAIL_TAKEN", 409, 0, "none", role, FALSE)
          /\ UNCHANGED << users, audit >>
     ELSE /\ FreeUserIds # {}
          /\ LET u == CHOOSE x \in FreeUserIds : \A y \in FreeUserIds : x <= y
                 newRole == IF role = "" THEN "holder" ELSE role
             IN /\ users' = [users EXCEPT ![u] = NewUser(email, DefaultPassword, newRole)]
                /\ audit' = AuditLog_log(audit,
                     [AuditEntry("auth.register", "info", 0, TRUE)
                        EXCEPT !.performedBy = u, !.performedByEmail = email,
                               !.performedByRole = newRole])
                /\ last' = Response("register", 0, "OK", 201, u, newRole, role, FALSE)
  /\ nreq' = nreq + 1
  /\ UNCHANGED << certs, now, inflight >>

\* POST /api/auth/register with a body that carries `role` (recorded as
\* last.prev): the handler does not read it.  The route has no authenticate,
\* so that an Authorization header is not read either
registerBody(email, role) ==
  /\ IF FindByEmail(email) # 0
     THEN /\ last' = Response("register", 0, "EMAIL_TAKEN", 409, 0, "none", role, FALSE)
          /\ UNCHANGED << users, audit >>
     ELSE /\ FreeUserIds # {}
          /\ LET u == CHOOSE x \in FreeUserIds : \A y \in FreeUserIds : x <= y
             IN /\ users' = [users EXCEPT ![u] = NewUser(email, DefaultPassword, "holder")]
                /\ audit' = AuditLog_log(audit,
                     [AuditEntry("auth.register", "info", 0, TRUE)
                        EXCEPT !.performedBy = u, !.performedByEmail = email,
                               !.performedByRole = "holder"])
                /\ last' = Response("register", 0, "OK", 201, u, "holder", role, FALSE)
  /\ nreq' = nreq + 1
  /\ UNCHANGED << certs, now, inflight >>

NextRegister ==
  \/ /\ nreq < MaxRegisterRequests /\ \E e \in Emails, r \in BodyRoles : registerBody(e, r)
     /\ UNCHANGED auditStore
  \/ /\ nreq < MaxRegisterRequests
     /\ \E t \in ValidCredentials, e \in Emails, r \in RoleChoices : createUser(t, e, r)
     /\ UNCHANGED auditStore

SpecRegister == Init /\ [][NextRegister]_vars

\* C23: every user created by register has role holder, whatever role the
\* body carries; createUser without a role yields holder as well.
C23_RegisterYieldsHolder ==
  [][nreq' = nreq + 1 =>
       /\ (last'.op = "register" /\ last'.code = "OK") =>
            /\ ~users[last'.target].exists
            /\ users'[last'.target].exists
            /\ users'[last'.target].role = "holder"
       /\ (last'.op = "createUser" /\ last'.code = "OK"
             /\ \E t \in ValidCredentials, e \in Emails : createUser(t, e, "")) =>
            /\ ~users[last'.target].exists
            /\ users'[last'.target].exists
            /\ users'[last'.target].role = "holder"]_vars

\* a registration whose body asked for super_admin has created a holder
C23_Witness ==
  /\ last.op = "register" /\ last.code = "OK" /\ last.prev = "super_admin"
  /\ users[last.target].exists /\ users[last.target].role = "holder"

(***************************************************************************)
(* Two requests for the same email at once                                 *)
(* (register and createUser: User.findOne, then User.create)               *)
(***************************************************************************)
MaxConcurrent == 2
MaxRaceRequests == 3

Slots == 1..MaxConcurrent

\* a request between its User.findOne and its User.create
Idle == [op |-> "none", email |-> 0, role |-> "", caller |-> 0]

\* in every slot, the request that has passed findOne and not yet created
Pending(s) == inflight.pending[s]

SetPending(s, request) ==
  inflight' = [inflight EXCEPT !.pending = [@ EXCEPT ![s] = request]]

\* user 1 is a super_admin, user 2 an admin; the other ids are free
InitRace ==
  /\ users = [u \in UserIds |->
                IF u = 1 THEN NewUser(1, DefaultPassword, "super_admin")
                ELSE IF u = 2 THEN NewUser(2, DefaultPassword, "admin")
                ELSE NoUser]
  /\ certs = [c \in CertIds |-> NoCert]
  /\ audit = << >>
  /\ now = 1
  /\ inflight = [cert |-> 0, caller |-> 0, role |-> "none",
                 pending |-> [s \in Slots |-> Idle]]
  /\ last = NoResponse
  /\ nreq = 0
  /\ auditStore = "up"

\* the unique index on email (models/User.js) rejects an insert whose email
\* a stored user has: E11000
DuplicateKey(email) == FindByEmail(email) # 0

\* register, up to and including User.findOne({ email })
register_findOne(s, email) ==
  /\ Pending(s) = Idle
  /\ IF FindByEmail(email) # 0
     THEN /\ last' = Response("register", 0, "EMAIL_TAKEN", 409, 0, "none", "none", FALSE)
          /\ nreq' = nreq + 1
          /\ UNCHANGED inflight
     ELSE /\ SetPending(s, [op |-> "register", email |-> email, role |-> "", caller |-> 0])
          /\ UNCHANGED << last, nreq >>
  /\ UNCHANGED << users, certs, audit, now >>

\* register, from User.create to the response; a rejected insert is caught
\* by the handler's catch block
register_create(s) ==
  /\ Pending(s).op = "register"
  /\ IF DuplicateKey(Pending(s).email)
     THEN /\ last' = Response("register", 0, "REGISTER_FAILED", 500, 0, "none", "none", FALSE)
          /\ UNCHANGED << users, audit >>
     ELSE /\ FreeUserIds # {}
          /\ LET u == CHOOSE x \in FreeUserIds : \A y \in FreeUserIds : x <= y
             IN /\ users' = [users EXCEPT
                               ![u] = NewUser(Pending(s).email, DefaultPassword, "holder")]
                /\ audit' = AuditLog_log(audit,
                     [AuditEntry("auth.register", "info", 0, TRUE)
                        EXCEPT !.performedBy = u, !.performedByEmail = Pending(s).email,
                               !.performedByRole = "holder"])
                /\ last' = Response("register", 0, "OK", 201, u, "holder", "none", FALSE)
  /\ SetPending(s, Idle)
  /\ nreq' = nreq + 1
  /\ UNCHANGED << certs, now >>

\* createUser, up to and including User.findOne({ email })
createUser_findOne(s, token, email, role) ==
  /\ Pending(s) = Idle
  /\ LET g == authorize(token, "user:create")
     IN IF ~g.ok
        THEN /\ audit' = g.log
             /\ last' = Response("createUser", g.uid, g.code, g.http, 0, "none", "none", FALSE)
             /\ nreq' = nreq + 1
             /\ UNCHANGED inflight
        ELSE IF role \in {"admin", "super_admin"} /\ users[g.uid].role # "super_admin"
        THEN /\ last' = Response("createUser", g.uid, "INSUFFICIENT_PRIVILEGE", 403,
                                 0, role, "none", FALSE)
             /\ nreq' = nreq + 1
             /\ UNCHANGED << inflight, audit >>
        ELSE IF FindByEmail(email) # 0
        THEN /\ last' = Response("createUser", g.uid, "EMAIL_TAKEN", 409,
                                 0, role, "none", FALSE)
             /\ nreq' = nreq + 1
             /\ UNCHANGED << inflight, audit >>
        ELSE /\ SetPending(s, [op |-> "createUser", email |-> email, role |-> role,
                               caller |-> g.uid])
             /\ UNCHANGED << last, nreq, audit >>
  /\ UNCHANGED << users, certs, now >>

\* createUser, from User.create to the response; the 500 of the catch block
\* carries no code
createUser_create(s) ==
  /\ Pending(s).op = "createUser"
  /\ users[Pending(s).caller].exists
  /\ IF DuplicateKey(Pending(s).email)
     THEN /\ last' = Response("createUser", Pending(s).caller, "none", 500,
                              0, Pending(s).role, "none", FALSE)
          /\ UNCHANGED << users, audit >>
     ELSE /\ FreeUserIds # {}
          /\ LET u == CHOOSE x \in FreeUserIds : \A y \in FreeUserIds : x <= y
                 newRole == IF Pending(s).role = "" THEN "holder" ELSE Pending(s).role
             IN /\ users' = [users EXCEPT
                               ![u] = NewUser(Pending(s).email, DefaultPassword, newRole)]
                /\ audit' = AuditLog_log(audit,
                              AuditEntry("user.create", "info", Pending(s).caller, TRUE))
                /\ last' = Response("createUser", Pending(s).caller, "OK", 201,
                                    u, newRole, "none", FALSE)
  /\ SetPending(s, Idle)
  /\ nreq' = nreq + 1
  /\ UNCHANGED << certs, now >>

\* up to MaxConcurrent requests are handled at once, their store operations
\* interleaved
NextRace ==
  \/ /\ nreq < MaxRaceRequests /\ \E s \in Slots, e \in Emails : register_findOne(s, e)
     /\ UNCHANGED auditStore
  \/ /\ \E s \in Slots : register_create(s)
     /\ UNCHANGED auditStore
  \/ /\ nreq < MaxRaceRequests
     /\ \E s \in Slots, t \in ValidCredentials, e \in Emails, r \in RoleChoices :
          createUser_findOne(s, t, e, r)
     /\ UNCHANGED auditStore
  \/ /\ \E s \in Slots : createUser_create(s)
     /\ UNCHANGED auditStore

SpecRace == InitRace /\ [][NextRace]_vars

\* no two users share an email
EmailsUnique ==
  \A u, v \in UserIds :
    (users[u].exists /\ users[v].exists /\ users[u].email = users[v].email) => u = v

\* slot s has answered its request in this step
Answers(s) == Pending(s) # Idle /\ inflight'.pending[s] = Idle

\* C24: a register or createUser whose email already belongs to a user ends
\* with EMAIL_TAKEN (409) and creates no user, also when the email was taken
\* by a concurrent request between this request's lookup and its insert;
\* and no two users ever share an email.
C24_DuplicateEmailIsEmailTaken ==
  [][/\ \A s \in Slots :
          (Answers(s) /\ FindByEmail(Pending(s).email) # 0)
          => (last'.code = "EMAIL_TAKEN" /\ last'.http = 409 /\ users' = users)
     /\ \A s \in Slots, e \in Emails :
          (FindByEmail(e) # 0 /\ register_findOne(s, e))
          => (last'.code = "EMAIL_TAKEN" /\ last'.http = 409 /\ users' = users)
     /\ EmailsUnique']_vars

\* what does hold: no request creates a user for an email that is taken,
\* and no two users share an email; the request that loses the race is
\* answered 500
C24_DuplicateEmailCreatesNoUser ==
  [][/\ \A s \in Slots :
          (Answers(s) /\ FindByEmail(Pending(s).email) # 0)
          => (last'.http = 500 /\ last'.code \in {"REGISTER_FAILED", "none"}
                /\ users' = users)
     /\ \A s \in Slots, e \in Emails :
          (FindByEmail(e) # 0 /\ register_findOne(s, e))
          => (last'.code = "EMAIL_TAKEN" /\ last'.http = 409 /\ users' = users)
     /\ EmailsUnique']_vars

\* two registrations for the same new email ran at once: one created the
\* user, the other has just been answered 500 REGISTER_FAILED
C24_Witness ==
  /\ last.op = "register" /\ last.code = "REGISTER_FAILED" /\ last.http = 500
  /\ Len(audit) = 1 /\ audit[1].action = "auth.register"
  /\ FindByEmail(audit[1].performedByEmail) # 0
  /\ EmailsUnique

(***************************************************************************)
(* Export is for export roles and the certificate's holder                 *)
(***************************************************************************)
\* an authenticated caller has asked for the export of a stored certificate
ExportStep ==
  /\ last'.op = "exportCertificate" /\ nreq' = nreq + 1
  /\ last'.http # 401 /\ last'.caller # 0
  /\ certs[last'.target].exists

\* the caller's role holds certificate:export, or the caller is the holder
MayExport ==
  \/ hasPermission(users[last'.caller].role, "certificate:export")
  \/ certs[last'.target].holder = last'.caller

\* C25: export returns the certificate dump only to a caller whose role holds
\* certificate:export or who is the certificate's holder; every other
\* authenticated caller is refused with 403 and receives no data.
C25_ExportOnlyToExporterOrHolder ==
  [][ExportStep =>
       /\ (last'.http = 200 \/ last'.result # "none") => MayExport
       /\ ~MayExport => (last'.http = 403 /\ last'.result = "none")]_vars

\* what does hold: every other caller receives no data, refused with 403,
\* or with 500 when the certificate's holder has been deleted
C25_NoDataToOthers ==
  [][ExportStep =>
       /\ (last'.http = 200 \/ last'.result # "none") => MayExport
       /\ ~MayExport =>
            /\ last'.result = "none"
            /\ last'.http = IF HolderIsNull(last'.target)
                               /\ hasPermission(users[last'.caller].role,
                                                "certificate:read:own")
                            THEN 500 ELSE 403]_vars

\* a holder asks for the export of a certificate whose holder was deleted
\* and is answered 500
C25_Witness ==
  /\ last.op = "exportCertificate" /\ last.http = 500 /\ last.result = "none"
  /\ last.caller # 0 /\ users[last.caller].role = "holder"
  /\ certs[last.target].exists /\ HolderIsNull(last.target)
  /\ certs[last.target].holder # last.caller

(***************************************************************************)
(* A holder reads own certificates only                                    *)
(* (getCertificates, getCertificate, getCertificateStats)                  *)
(***************************************************************************)
MaxOwnRequests == 2

\* the status filter of the query string; "" is no filter
StatusFilters == {"", "active", "revoked"}

\* Certificate.find(query): the ids of the stored certificates that match
Find(holderFilter, statusFilter) ==
  {c \in CertIds : /\ certs[c].exists
                   /\ (holderFilter # 0 => certs[c].holder = holderFilter)
                   /\ (statusFilter # "" => certs[c].status = statusFilter)}

\* the $group stage of the statistics: counts by status
Summary(S) ==
  [total |-> Cardinality(S),
   active |-> Cardinality({c \in S : certs[c].status = "active"}),
   revoked |-> Cardinality({c \in S : certs[c].status = "revoked"}),
   expired |-> Cardinality({c \in S : certs[c].status = "expired"}),
   pending |-> Cardinality({c \in S : certs[c].status = "pending"})]

\* a plausible slip: the list is not narrowed to the caller's certificates
getCertificates_holderFilter_None(uid) == 0

\* query.holder = req.user._id, for a role without certificate:read
getCertificates_holderFilter(uid) ==
  IF ~hasPermission(users[uid].role, "certificate:read") THEN uid ELSE 0

\* GET /api/certificates (a page that holds every match); the result is the
\* set of the certificates returned
getCertificates(token, statusFilter) ==
  LET g == authorizeAny(token, << "certificate:read", "certificate:read:own" >>)
  IN IF ~g.ok THEN Refused("getCertificates", g, 0)
     ELSE /\ last' = IF /\ ~hasPermission(users[g.uid].role, "certificate:read")
                        /\ ~hasPermission(users[g.uid].role, "certificate:read:own")
                     THEN Response("getCertificates", g.uid, "PERMISSION_DENIED", 403,
                                   0, {}, "none", FALSE)
                     ELSE Response("getCertificates", g.uid, "OK", 200, 0,
                                   Find(getCertificates_holderFilter(g.uid), statusFilter),
                                   "none", FALSE)
          /\ nreq' = nreq + 1
          /\ UNCHANGED << users, certs, audit, now, inflight >>

\* GET /api/certificates/stats, behind router.use(authenticate) only; the
\* result is the summary
getCertificateStats(token) ==
  LET g == authenticate(token)
  IN IF ~g.ok THEN Refused("getCertificateStats", g, 0)
     ELSE /\ last' = Response("getCertificateStats", g.uid, "OK", 200, 0,
                        Summary(Find(IF ~hasPermission(users[g.uid].role, "certificate:read")
                                     THEN g.uid ELSE 0, "")),
                        "none", FALSE)
          /\ nreq' = nreq + 1
          /\ UNCHANGED << users, certs, audit, now, inflight >>

\* user 1 is a super_admin, user 2 has any role, user 3 is a holder;
\* certificate 1 is held by user 3 and certificate 2 by user 2
InitOwn ==
  /\ \E r \in ROLES :
       users = [u \in UserIds |->
                  IF u = 1 THEN NewUser(1, DefaultPassword, "super_admin")
                  ELSE IF u = 2 THEN NewUser(2, DefaultPassword, r)
                  ELSE NewUser(u, DefaultPassword, "holder")]
  /\ \E st \in {"active", "revoked"} :
       certs = [c \in CertIds |->
                  IF c = 1
                  THEN LET saved == PreSave(NewCertificate("seed", "active", 3, 1, NoTime),
                                            1, HolderRef(3))
                       IN [saved EXCEPT
                             !.digitalSignature = signCertificate(saved, SIGNING_SECRET)]
                  ELSE IF c = 2
                  THEN LET saved == PreSave(NewCertificate("seed", st, 2, 1, NoTime),
                                            2, HolderRef(2))
                       IN [saved EXCEPT
                             !.digitalSignature = signCertificate(saved, SIGNING_SECRET)]
                  ELSE NoCert]
  /\ audit = << >>
  /\ now = 1
  /\ inflight = NoInflight
  /\ last = NoResponse
  /\ nreq = 0
  /\ auditStore = "up"

NextOwn ==
  \/ /\ nreq < MaxOwnRequests
     /\ \E t \in SomeCredentials, f \in StatusFilters : getCertificates(t, f)
     /\ UNCHANGED auditStore
  \/ /\ nreq < MaxOwnRequests
     /\ \E t \in SomeCredentials, c \in CertIds : getCertificate(t, c)
     /\ UNCHANGED auditStore
  \/ /\ nreq < MaxOwnRequests
     /\ \E t \in SomeCredentials : getCertificateStats(t)
     /\ UNCHANGED auditStore
  \/ /\ nreq < MaxOwnRequests
     /\ \E t \in SomeCredentials, u \in UserIds : deleteUser(t, u)
     /\ UNCHANGED auditStore

SpecOwn == InitOwn /\ [][NextOwn]_vars

\* the caller of the request holds certificate:read:own and not
\* certificate:read
OwnReader ==
  /\ last'.caller # 0 /\ nreq' = nreq + 1
  /\ hasPermission(users[last'.caller].role, "certificate:read:own")
  /\ ~hasPermission(users[last'.caller].role, "certificate:read")

\* the stored certificates whose holder is u
OwnCertificates(u) == {c \in CertIds : certs[c].exists /\ certs[c].holder = u}

\* the list and the statistics hold own certificates only, and a single
\* certificate is shown only to its holder
OnlyOwnData ==
  /\ last'.op = "getCertificates" =>
       /\ last'.http = 200
       /\ last'.result \subseteq OwnCertificates(last'.caller)
  /\ last'.op = "getCertificateStats" =>
       /\ last'.http = 200
       /\ last'.result = Summary(OwnCertificates(last'.caller))
  /\ (last'.op = "getCertificate" /\ last'.http = 200) =>
       certs[last'.target].holder = last'.caller

\* the request reads a single stored certificate that another user holds
ReadsAnothers ==
  /\ last'.op = "getCertificate"
  /\ certs[last'.target].exists
  /\ certs[last'.target].holder # last'.caller

\* C26: a caller with certificate:read:own but not certificate:read obtains
\* through getCertificates, getCertificate and getCertificateStats only data
\* of certificates whose holder is the caller; reading another's single
\* certificate fails with 403 and records one certificate.access_denied
\* audit entry.
C26_OwnReaderSeesOwnOnly ==
  [][OwnReader =>
       /\ OnlyOwnData
       /\ ReadsAnothers =>
            /\ last'.http = 403 /\ last'.code = "NOT_OWNER"
            /\ AppendedOne /\ Appended.action = "certificate.access_denied"
            /\ Appended.performedBy = last'.caller]_vars

\* what does hold: only own data is returned, and another's certificate is
\* refused with an audited 403 as long as its holder still exists
C26_OwnDataOnly ==
  [][OwnReader =>
       /\ OnlyOwnData
       /\ ReadsAnothers =>
            IF HolderIsNull(last'.target)
            THEN last'.http = 500 /\ last'.result = "none" /\ audit' = audit
            ELSE /\ last'.http = 403 /\ last'.code = "NOT_OWNER"
                 /\ AppendedOne /\ Appended.action = "certificate.access_denied"
                 /\ Appended.performedBy = last'.caller]_vars

\* a holder has read the certificate of a deleted holder: the answer is 500
\* and the audit log has no certificate.access_denied entry
C26_Witness ==
  /\ last.op = "getCertificate" /\ last.http = 500
  /\ last.caller # 0 /\ users[last.caller].role = "holder"
  /\ certs[last.target].exists /\ certs[last.target].holder # last.caller
  /\ HolderIsNull(last.target)
  /\ \A i \in 1..Len(audit) : audit[i].action # "certificate.access_denied"

(***************************************************************************)
(* docs/SECURITY.md: the access control matrix                             *)
(***************************************************************************)
\* the columns of the matrix, left to right
MatrixRoles == << "super_admin", "admin", "issuer", "verifier", "holder" >>

\* one row per permission; TRUE is a granted cell
AccessControlMatrix ==
  << << "certificate:create", << TRUE, TRUE, TRUE, FALSE, FALSE >> >>,
     << "certificate:read", << TRUE, TRUE, TRUE, TRUE, FALSE >> >>,
     << "certificate:read:own", << TRUE, TRUE, TRUE, TRUE, TRUE >> >>,
     << "certificate:revoke", << TRUE, TRUE, TRUE, FALSE, FALSE >> >>,
     << "certificate:sign", << TRUE, TRUE, TRUE, FALSE, FALSE >> >>,
     << "certificate:verify", << TRUE, TRUE, TRUE, TRUE, TRUE >> >>,
     << "certificate:export", << TRUE, TRUE, TRUE, FALSE, FALSE >> >>,
     << "certificate:delete", << TRUE, TRUE, FALSE, FALSE, FALSE >> >>,
     << "user:create", << TRUE, TRUE, FALSE, FALSE, FALSE >> >>,
     << "user:read", << TRUE, TRUE, TRUE, FALSE, FALSE >> >>,
     << "user:read:own", << TRUE, TRUE, TRUE, TRUE, TRUE >> >>,
     << "user:update", << TRUE, TRUE, FALSE, FALSE, FALSE >> >>,
     << "user:update:own", << TRUE, TRUE, TRUE, TRUE, TRUE >> >>,
     << "user:delete", << TRUE, TRUE, FALSE, FALSE, FALSE >> >>,
     << "user:assign_role", << TRUE, TRUE, FALSE, FALSE, FALSE >> >>,
     << "audit:read", << TRUE, TRUE, TRUE, FALSE, FALSE >> >>,
     << "audit:export", << TRUE, TRUE, FALSE, FALSE, FALSE >> >>,
     << "system:config", << TRUE, FALSE, FALSE, FALSE, FALSE >> >>,
     << "system:backup", << TRUE, FALSE, FALSE, FALSE, FALSE >> >> >>

MatrixPermissions == {AccessControlMatrix[i][1] : i \in 1..Len(AccessControlMatrix)}

\* the cell of the matrix for a role and a permission
Granted(role, permission) ==
  \E r \in 1..Len(AccessControlMatrix), i \in 1..Len(MatrixRoles) :
    /\ AccessControlMatrix[r][1] = permission
    /\ MatrixRoles[i] = role
    /\ AccessControlMatrix[r][2][i]

\* hasPermission has been called on a cell of the matrix
MatrixCall ==
  /\ last.op = "hasPermission"
  /\ last.role \in ROLES /\ last.prev \in MatrixPermissions

\* the :own rows
OwnRows == {"certificate:read:own", "user:read:own", "user:update:own"}

\* C27: for every role and permission of the access control matrix of
\* SECURITY.md, hasPermission is true exactly where the matrix shows the
\* cell granted, the :own rows (granted to all five roles) included.
C27_HasPermissionMatchesMatrix ==
  MatrixCall => (last.result = "true" <=> Granted(last.role, last.prev))

\* what does hold: outside the :own rows hasPermission agrees with the
\* matrix; in the :own rows it is true only where the matrix grants, and it
\* is true for the holder
C27_MatchesOutsideOwnRows ==
  MatrixCall =>
    /\ last.prev \notin OwnRows =>
         (last.result = "true" <=> Granted(last.role, last.prev))
    /\ last.result = "true" => Granted(last.role, last.prev)
    /\ last.role \in {"holder", "super_admin"} =>
         (last.result = "true" <=> Granted(last.role, last.prev))

\* hasPermission('admin', 'certificate:read:own') is false on a cell the
\* matrix shows granted
C27_Witness ==
  /\ last.op = "hasPermission"
  /\ last.role = "admin" /\ last.prev = "certificate:read:own"
  /\ Granted("admin", "certificate:read:own")
  /\ last.result = "false"

(***************************************************************************)
(* What the pre-save hook assigns once                                     *)
(***************************************************************************)
\* certificate c has been saved before this step
Persisted(c) == certs[c].exists /\ certs[c].certificateId # 0

\* the three generated identifiers of c are what they were
IdentifiersKept(c) ==
  /\ certs'[c].certificateId = certs[c].certificateId
  /\ certs'[c].serialNumber = certs[c].serialNumber
  /\ certs'[c].verificationToken = certs[c].verificationToken

\* C28: certificateId, serialNumber, verificationToken and checksum receive
\* their values at the first save and keep exactly those values after every
\* later operation (the signing save, revoke, verify, the auto-expire
\* sweep); no later save recomputes the checksum.
C28_GeneratedFieldsAreImmutable ==
  [][\A c \in CertIds :
       Persisted(c) =>
         /\ IdentifiersKept(c)
         /\ certs'[c].checksum = certs[c].checksum]_vars

\* what does hold: the identifiers never change; the checksum is recomputed
\* by every save, and only that of a verify (whose document carries the
\* populated holder) or of a revoke after it gives a different value
C28_IdentifiersAreImmutable ==
  [][\A c \in CertIds :
       Persisted(c) =>
         /\ IdentifiersKept(c)
         /\ certs'[c].checksum # certs[c].checksum =>
              /\ last'.op \in {"verifyCertificate", "revokeCertificate"}
              /\ last'.target = c
              /\ certs'[c].checksum =
                   Checksum(certs[c].title,
                            IF last'.op = "verifyCertificate"
                            THEN HolderPopulated(certs[c].holder)
                            ELSE HolderRef(certs[c].holder))]_vars

\* a verify has saved the certificate: its checksum is no longer the one of
\* the first save, its identifiers are
C28_Witness ==
  /\ last.op = "verifyCertificate" /\ last.target # 0
  /\ certs[last.target].exists
  /\ Len(certs[last.target].verificationHistory) > 0
  /\ certs[last.target].checksum
       # Checksum(certs[last.target].title, HolderRef(certs[last.target].holder))
  /\ certs[last.target].certificateId = Fresh(last.target)
  /\ certs[last.target].verificationToken = Fresh(last.target)

(***************************************************************************)
(* The generated identifiers, with crypto.randomBytes as a draw            *)
(***************************************************************************)
MaxDraw == 2
MaxDrawRequests == 3

\* what crypto.randomBytes(n).toString('hex') may return
RandomBytes == 1..MaxDraw

\* certificateSchema.pre('save') with the three draws as arguments
PreSaveDrawn(doc, id, serial, vtoken, holderString) ==
  [doc EXCEPT !.certificateId = IF @ = 0 THEN id ELSE @,
              !.serialNumber = IF @ = 0 THEN serial ELSE @,
              !.verificationToken = IF @ = 0 THEN vtoken ELSE @,
              !.checksum = Checksum(doc.title, holderString)]

\* the unique indexes of the schema (certificateId, serialNumber) reject
\* the insert; verificationToken has an index that is not unique
UniqueIndexRejects(doc) ==
  \E d \in CertIds :
    /\ certs[d].exists
    /\ \/ certs[d].certificateId = doc.certificateId
       \/ certs[d].serialNumber = doc.serialNumber

\* POST /api/certificates, up to and including the first save; a rejected
\* save is answered by the catch block
createCertificate_drawn(token, holderEmail, expiresAt, id, serial, vtoken) ==
  LET g == authorize(token, "certificate:create")
  IN IF ~g.ok THEN Refused("createCertificate", g, 0)
     ELSE IF holderEmail # 0 /\ FindByEmail(holderEmail) = 0
     THEN /\ last' = Response("createCertificate", g.uid, "HOLDER_NOT_FOUND", 404,
                              0, "none", "none", FALSE)
          /\ nreq' = nreq + 1
          /\ UNCHANGED << users, certs, audit, now, inflight >>
     ELSE IF holderEmail = 0
     THEN /\ last' = Response("createCertificate", g.uid, "HOLDER_REQUIRED", 400,
                              0, "none", "none", FALSE)
          /\ nreq' = nreq + 1
          /\ UNCHANGED << users, certs, audit, now, inflight >>
     ELSE /\ FreeCertIds # {}
          /\ LET c == CHOOSE x \in FreeCertIds : \A y \in FreeCertIds : x <= y
                 holder == FindByEmail(holderEmail)
                 doc == PreSaveDrawn(
                          NewCertificate("create", "pending", holder, g.uid, expiresAt),
                          id, serial, vtoken, HolderRef(holder))
             IN IF UniqueIndexRejects(doc)
                THEN /\ last' = Response("createCertificate", g.uid, "CREATE_FAILED", 500,
                                         0, "none", "none", FALSE)
                     /\ nreq' = nreq + 1
                     /\ UNCHANGED << certs, inflight >>
                ELSE /\ certs' = [certs EXCEPT ![c] = doc]
                     /\ inflight' = [cert |-> c, caller |-> g.uid,
                                     role |-> users[g.uid].role]
                     /\ UNCHANGED << last, nreq >>
          /\ UNCHANGED << users, audit, now >>

NextDraw ==
  \/ /\ inflight.cert = 0 /\ nreq < MaxDrawRequests
     /\ \E t \in ValidCredentials, e \in {0, 2, MaxUsers}, x \in ExpiryChoices,
           id \in RandomBytes, serial \in RandomBytes, vtoken \in RandomBytes :
          createCertificate_drawn(t, e, x, id, serial, vtoken)
     /\ UNCHANGED auditStore
  \/ /\ createCertificate_sign
     /\ UNCHANGED auditStore
  \/ /\ inflight.cert = 0 /\ nreq < MaxDrawRequests
     /\ \E k \in RandomBytes, ok \in BOOLEAN : verifyCertificate(k, ok)
     /\ UNCHANGED auditStore
  \/ /\ inflight.cert = 0 /\ nreq < MaxDrawRequests
     /\ \E t \in ValidCredentials, c \in CertIds, r \in Reasons : revokeCertificate(t, c, r)
     /\ UNCHANGED auditStore

SpecDraw == InitCert /\ [][NextDraw]_vars

\* the three identifiers of every stored certificate are set
IdentifiersSet ==
  \A c \in CertIds :
    certs[c].exists =>
      /\ certs[c].certificateId # 0
      /\ certs[c].serialNumber # 0
      /\ certs[c].verificationToken # 0

C29_IndexedIdentifiersAreUnique ==
  /\ IdentifiersSet
  /\ \A c, d \in CertIds :
       (certs[c].exists /\ certs[d].exists /\ c # d) =>
         /\ certs[c].certificateId # certs[d].certificateId
         /\ certs[c].serialNumber # certs[d].serialNumber

MaxPendingRequests == 3

\* between the two saves of createCertificate other requests are served
NextPending ==
  \/ /\ inflight.cert = 0 /\ nreq < MaxPendingRequests
     /\ \E t \in ValidCredentials, e \in {0, 2, MaxUsers}, x \in ExpiryChoices :
          createCertificate(t, e, x)
     /\ UNCHANGED auditStore
  \/ /\ createCertificate_sign
     /\ UNCHANGED auditStore
  \/ /\ nreq < MaxPendingRequests
     /\ \E t \in ValidCredentials, c \in CertIds, r \in Reasons : revokeCertificate(t, c, r)
     /\ UNCHANGED auditStore
  \/ /\ nreq < MaxPendingRequests
     /\ \E k \in TokenChoices, ok \in BOOLEAN : verifyCertificate(k, ok)
     /\ UNCHANGED auditStore
  \/ /\ nreq < MaxPendingRequests /\ autoExpireCertificates
     /\ UNCHANGED auditStore
  \/ /\ Tick
     /\ UNCHANGED auditStore

SpecPending == InitCert /\ [][NextPending]_vars

\* certificate c of the create operation carries a signature
Signed(c) == certs[c].exists /\ certs[c].digitalSignature # NoSignature

\* C30: for a certificate made by the create operation, digitalSignature is
\* non-empty exactly when the status has been active at some point: an
\* active certificate is signed, a signature appears only in the step that
\* makes the status active, it is never removed, and a certificate that
\* never reached active (for example one revoked while pending) has none.
C30_SignedIffEverActive ==
  [][\A c \in CertIds :
       (certs'[c].exists /\ certs'[c].origin = "create") =>
         /\ certs'[c].status = "active" => certs'[c].digitalSignature # NoSignature
         /\ certs'[c].status = "pending" => certs'[c].digitalSignature = NoSignature
         /\ (~Signed(c) /\ certs'[c].digitalSignature # NoSignature)
              => certs'[c].status = "active"
         /\ Signed(c) => certs'[c].digitalSignature = certs[c].digitalSignature]_vars

\* a created certificate has been revoked between its two saves: it has
\* never been active and carries no signature
C30_Witness ==
  /\ inflight.cert # 0
  /\ last.op = "revokeCertificate" /\ last.code = "OK" /\ last.target = inflight.cert
  /\ certs[inflight.cert].origin = "create"
  /\ certs[inflight.cert].status = "revoked"
  /\ certs[inflight.cert].digitalSignature = NoSignature

(***************************************************************************)
(* The status state machine                                                *)
(***************************************************************************)
\* draft -> pending -> active -> {expired, revoked, suspended}
LifecycleEdges ==
  { << "draft", "pending" >>, << "pending", "active" >>,
    << "active", "expired" >>, << "active", "revoked" >>,
    << "active", "suspended" >> }

\* the status of a stored certificate changes in this step
StatusChanges(c) ==
  certs[c].exists /\ certs'[c].exists /\ certs'[c].status # certs[c].status

\* C31: every status change made by any operation follows an edge of
\* draft -> pending -> active -> {expired, revoked, suspended}: revoke and
\* the sweep change the status only from active, nothing moves a draft,
\* pending, expired or suspended certificate to revoked, and nothing moves
\* a certificate back to an earlier status.
C31_StatusFollowsLifecycle ==
  [][\A c \in CertIds :
       StatusChanges(c) => << certs[c].status, certs'[c].status >> \in LifecycleEdges]_vars

\* what does hold: a status change is an edge of the lifecycle, or a revoke
\* of a certificate of any status other than revoked; the sweep changes
\* active to expired only
C31_LifecycleOrRevokeFromAnyStatus ==
  [][\A c \in CertIds :
       StatusChanges(c) =>
         \/ << certs[c].status, certs'[c].status >> \in LifecycleEdges
              /\ (last'.op = "autoExpire" => certs[c].status = "active")
         \/ /\ last'.op = "revokeCertificate" /\ last'.code = "OK" /\ last'.target = c
            /\ certs[c].status # "revoked" /\ certs'[c].status = "revoked"]_vars

\* an expired certificate has been revoked
C31_Witness ==
  /\ last.op = "revokeCertificate" /\ last.code = "OK"
  /\ last.prev = "expired"
  /\ certs[last.target].status = "revoked"

(***************************************************************************)
(* statics.autoExpireCertificates, one document at a time                  *)
(* (updateMany applies its filter and its $set to each document atomically)*)
(***************************************************************************)
MaxSweeps == 2
MaxSweepRequests == 3

Sweeps == 1..MaxSweeps

\* a sweep that is not running
NoSweep == [running |-> FALSE, at |-> NoTime, todo |-> {}, modified |-> {}]

Sweep(s) == inflight.sweeps[s]

SetSweep(s, sweep) ==
  inflight' = [inflight EXCEPT !.sweeps = [@ EXCEPT ![s] = sweep]]

\* a plausible slip: the filter leaves the status out
autoExpire_filter_AnyStatus(doc, at) ==
  doc.exists /\ doc.expiresAt # NoTime /\ doc.expiresAt < at

\* { status: 'active', expiresAt: { $lt: new Date() } }
autoExpire_filter(doc, at) ==
  doc.exists /\ doc.status = "active" /\ doc.expiresAt # NoTime /\ doc.expiresAt < at

\* the call: new Date() is evaluated, the scan of the collection begins
autoExpire_start(s) ==
  /\ ~Sweep(s).running
  /\ SetSweep(s, [running |-> TRUE, at |-> now,
                  todo |-> {c \in CertIds : certs[c].exists}, modified |-> {}])
  /\ UNCHANGED << users, certs, audit, now, last, nreq >>

\* one document: filter and { $set: { status: 'expired' } } in one atomic
\* write; no save hook runs
autoExpire_update(s, c) ==
  /\ Sweep(s).running /\ c \in Sweep(s).todo
  /\ IF autoExpire_filter(certs[c], Sweep(s).at)
     THEN /\ certs' = [certs EXCEPT ![c] = [@ EXCEPT !.status = "expired"]]
          /\ SetSweep(s, [Sweep(s) EXCEPT !.todo = @ \ {c}, !.modified = @ \cup {c}])
     ELSE /\ UNCHANGED certs
          /\ SetSweep(s, [Sweep(s) EXCEPT !.todo = @ \ {c}])
  /\ UNCHANGED << users, audit, now, last, nreq >>

\* the result of updateMany: modifiedCount
autoExpire_return(s) ==
  /\ Sweep(s).running /\ Sweep(s).todo = {}
  /\ SetSweep(s, [Sweep(s) EXCEPT !.running = FALSE])
  /\ last' = [Response("autoExpire", 0, "OK", 0, 0, "none", "none", FALSE)
                EXCEPT !.result = Cardinality(Sweep(s).modified)]
  /\ nreq' = nreq + 1
  /\ UNCHANGED << users, certs, audit, now >>

InitSweep ==
  /\ users = [u \in UserIds |->
                IF u = 1 THEN NewUser(1, DefaultPassword, "super_admin")
                ELSE IF u = 2 THEN NewUser(2, DefaultPassword, "holder")
                ELSE NoUser]
  /\ certs = [c \in CertIds |-> NoCert]
  /\ audit = << >>
  /\ now = 1
  /\ inflight = [cert |-> 0, caller |-> 0, role |-> "none",
                 sweeps |-> [s \in Sweeps |-> NoSweep]]
  /\ last = NoResponse
  /\ nreq = 0
  /\ auditStore = "up"

\* sweeps run beside each other and beside the other requests
NextSweep ==
  \/ /\ nreq < MaxSweepRequests /\ \E s \in Sweeps : autoExpire_start(s)
     /\ UNCHANGED auditStore
  \/ /\ \E s \in Sweeps, c \in CertIds : autoExpire_update(s, c)
     /\ UNCHANGED auditStore
  \/ /\ \E s \in Sweeps : autoExpire_return(s)
     /\ UNCHANGED auditStore
  \/ /\ nreq < MaxSweepRequests
     /\ \E st \in {"active", "pending", "revoked"}, x \in ExpiryChoices :
          SeedCertificate(st, TRUE, 2, 1, x)
     /\ UNCHANGED auditStore
  \/ /\ nreq < MaxSweepRequests
     /\ \E c \in CertIds : revokeCertificate(AccessToken(1), c, "")
     /\ UNCHANGED auditStore
  \/ /\ Tick
     /\ UNCHANGED auditStore

SpecSweep == InitSweep /\ [][NextSweep]_vars

\* sweep s handles certificate c in this step
Handles(s, c) ==
  /\ Sweep(s).running /\ c \in Sweep(s).todo
  /\ c \notin inflight'.sweeps[s].todo

\* C32: the sweep sets status to expired for exactly the certificates that
\* are active with expiresAt earlier than its time, and leaves every other
\* certificate and every other field unchanged; handling a certificate that
\* a sweep has already expired changes nothing, and no certificate is
\* expired by two sweeps.
C32_SweepIsConditionalAndOnce ==
  [][\A s \in Sweeps, c \in CertIds :
       Handles(s, c) =>
         /\ certs' = [certs EXCEPT ![c] =
                        IF certs[c].status = "active" /\ certs[c].expiresAt # NoTime
                           /\ certs[c].expiresAt < Sweep(s).at
                        THEN [@ EXCEPT !.status = "expired"] ELSE @]
         /\ (\E r \in Sweeps : c \in Sweep(r).modified) => certs' = certs
         /\ \A r \in Sweeps :
              r # s => inflight'.sweeps[s].modified \cap inflight'.sweeps[r].modified = {}]_vars

\* two sweeps ran at once over an active certificate past its expiry: one
\* of them expired it, the other has handled it and changed nothing
C32_Witness ==
  \E s, r \in Sweeps, c \in CertIds :
    /\ s # r /\ Sweep(s).running /\ Sweep(r).running
    /\ Sweep(s).at = Sweep(r).at
    /\ c \in Sweep(s).modified /\ c \notin Sweep(r).modified
    /\ c \notin Sweep(r).todo
    /\ certs[c].status = "expired"

(***************************************************************************)
(* The audit log only grows                                                *)
(***************************************************************************)
\* log q begins with log p, entry for entry
Extends(p, q) == Len(q) >= Len(p) /\ SubSeq(q, 1, Len(p)) = p

\* C33: the audit log is append-only: the log after any operation extends
\* the log before it, entry for entry; the actor email and role stored in
\* an entry stay as they were when the actor's role is changed or the actor
\* is deleted later.
C33_AuditLogIsAppendOnly == [][Extends(audit, audit')]_vars

\* the role of an actor was changed, or the actor deleted, after an entry
\* recorded them: the entry still has the email and the role of that time
C33_Witness ==
  /\ last.op \in {"assignRole", "deleteUser"} /\ last.code = "OK"
  /\ Len(audit) = 2
  /\ audit[1].performedBy = last.target
  /\ audit[1].performedByEmail = last.target
  /\ \/ users[last.target].gone
     \/ users[last.target].role # audit[1].performedByRole

(***************************************************************************)
(* A request waits for its audit write                                     *)
(* (revokeCertificate and its route gate: await AuditLog.log(...), then    *)
(* the response)                                                           *)
(***************************************************************************)
MaxHangRequests == 2

\* no request is waiting for AuditLog.log
NoAwait == [busy |-> FALSE, entry |-> << >>, response |-> NoResponse]

Awaiting == inflight.awaiting.busy

\* the handler has reached `await AuditLog.log(entry)`; response is what it
\* sends after the await
Await(entry, response) ==
  inflight' = [inflight EXCEPT
                 !.awaiting = [busy |-> TRUE, entry |-> entry, response |-> response]]

\* PUT /api/certificates/:id/revoke, up to `await AuditLog.log`: the gate's
\* refusal entry, or certificate.save() and the revoke entry
revokeCertificate_save(token, id, reason) ==
  /\ ~Awaiting
  /\ LET g == authorize(token, "certificate:revoke")
     IN IF ~g.ok /\ g.code \in {"AUTH_REQUIRED", "PERMISSION_DENIED"}
        THEN /\ Await(AuditEntry(IF g.http = 403 THEN "security.forbidden"
                                 ELSE "security.unauthorized", "warning", g.uid, FALSE),
                      Response("revokeCertificate", g.uid, g.code, g.http,
                               id, "none", "none", FALSE))
             /\ UNCHANGED << certs, last, nreq >>
        ELSE IF ~g.ok
        THEN /\ last' = Response("revokeCertificate", g.uid, g.code, g.http,
                                 id, "none", "none", FALSE)
             /\ nreq' = nreq + 1
             /\ UNCHANGED << certs, inflight >>
        ELSE IF ~certs[id].exists
        THEN /\ last' = Response("revokeCertificate", g.uid, "CERT_NOT_FOUND", 404,
                                 id, "none", "none", FALSE)
             /\ nreq' = nreq + 1
             /\ UNCHANGED << certs, inflight >>
        ELSE IF certs[id].status = "revoked"
        THEN /\ last' = Response("revokeCertificate", g.uid, "ALREADY_REVOKED", 400,
                                 id, "none", "revoked", FALSE)
             /\ nreq' = nreq + 1
             /\ UNCHANGED << certs, inflight >>
        ELSE /\ certs' = [certs EXCEPT ![id] =
                  PreSave([certs[id] EXCEPT !.status = "revoked",
                                            !.revokedAt = now,
                                            !.revokedBy = g.uid,
                                            !.revocationReason = ReasonOrDefault(reason)],
                          id, HolderRef(certs[id].holder))]
             /\ Await(AuditEntry("certificate.revoke", "critical", g.uid, TRUE),
                      Response("revokeCertificate", g.uid, "OK", 200,
                               id, reason, certs[id].status, FALSE))
             /\ UNCHANGED << last, nreq >>
  /\ UNCHANGED << users, audit, now >>

\* entry.save() has settled (resolved, or rejected and caught by log()):
\* the handler resumes after the await and sends its response
revokeCertificate_respond ==
  /\ Awaiting
  /\ auditStore # "hung"
  /\ audit' = AuditLog_log(audit, inflight.awaiting.entry)
  /\ last' = inflight.awaiting.response
  /\ inflight' = [inflight EXCEPT !.awaiting = NoAwait]
  /\ nreq' = nreq + 1
  /\ UNCHANGED << users, certs, now >>

\* the store stops answering for good: a write neither resolves nor rejects
StoreHangs ==
  /\ auditStore = "up"
  /\ auditStore' = "hung"
  /\ UNCHANGED << users, certs, audit, now, inflight, last, nreq >>

\* user 1 is a super_admin, user 2 has any role; certificate 1 is active,
\* certificate 2 active or revoked
InitHang ==
  /\ \E r \in ROLES :
       users = [u \in UserIds |->
                  IF u = 1 THEN NewUser(1, DefaultPassword, "super_admin")
                  ELSE IF u = 2 THEN NewUser(2, DefaultPassword, r)
                  ELSE NoUser]
  /\ \E st \in {"active", "revoked"} :
       certs = [c \in CertIds |->
                  IF c <= 2
                  THEN LET saved == PreSave(NewCertificate("seed", IF c = 1 THEN "active" ELSE st,
                                                           2, 1, NoTime),
                                            c, HolderRef(2))
                       IN [saved EXCEPT
                             !.digitalSignature = signCertificate(saved, SIGNING_SECRET)]
                  ELSE NoCert]
  /\ audit = << >>
  /\ now = 1
  /\ inflight = [cert |-> 0, caller |-> 0, role |-> "none", awaiting |-> NoAwait]
  /\ last = NoResponse
  /\ nreq = 0
  /\ auditStore = "up"

NextHang ==
  \/ /\ nreq < MaxHangRequests
     /\ \E t \in ValidCredentials, c \in CertIds, r \in Reasons :
          revokeCertificate_save(t, c, r)
     /\ UNCHANGED auditStore
  \/ /\ revokeCertificate_respond
     /\ UNCHANGED auditStore
  \/ StoreHangs
  \/ StoreFails
  \/ StoreRecovers

\* the event loop resumes a handler whose awaited promise has settled
SpecHang ==
  /\ InitHang /\ [][NextHang]_vars
  /\ WF_vars(revokeCertificate_respond /\ UNCHANGED auditStore)

\* C34: audit recording never blocks the primary operation: also when the
\* store write of the audit entry never completes, the operation that
\* triggered it eventually sends its response.
C34_ResponseIsEventuallySent == Awaiting ~> ~Awaiting

\* what does hold: the response is sent once the write has settled, and
\* not before: while the write hangs the request stays unanswered
C34_ResponseOnceTheWriteSettles ==
  <>[](auditStore # "hung") => (Awaiting ~> ~Awaiting)

C34_ResponseWaitsForTheWrite ==
  [][(Awaiting /\ auditStore = "hung")
       => (last' = last /\ nreq' = nreq /\ inflight'.awaiting = inflight.awaiting)]_vars

\* a revoke has saved the certificate and waits for an audit write that
\* hangs: no response has been sent
C34_Witness ==
  /\ Awaiting /\ auditStore = "hung"
  /\ inflight.awaiting.response.op = "revokeCertificate"
  /\ inflight.awaiting.response.code = "OK"
  /\ certs[inflight.awaiting.response.target].status = "revoked"
  /\ last = NoResponse /\ audit = << >>

(***************************************************************************)
(* verify and revoke beside each other                                     *)
(* (each loads the document, then save() writes the paths it modified:     *)
(* $push for the history entry, $set for the other paths)                  *)
(***************************************************************************)
MaxOverlapRequests == 3

\* a request between its load and its save
NoRequest == [op |-> "none", cert |-> 0, doc |-> NoCert, caller |-> 0, reason |-> ""]

Request(s) == inflight.requests[s]

SetRequest(s, request) ==
  inflight' = [inflight EXCEPT !.requests = [@ EXCEPT ![s] = request]]

\* a plausible slip: save() writes the whole array as it is in memory
pushHistory_SetArray(stored, loaded, result) == Append(loaded, result)

\* verificationHistory.push(entry) and save(): a $push on the stored array
pushHistory(stored, loaded, result) == Append(stored, result)

\* POST /api/verify/:token, up to and including Certificate.findOne
verifyCertificate_findOne(s, token) ==
  /\ Request(s) = NoRequest
  /\ LET c == FindByToken(token)
     IN IF c = 0
        THEN /\ audit' = AuditLog_log(audit,
                           AuditEntry("certificate.verify_failed", "warning", 0, FALSE))
             /\ last' = Response("verifyCertificate", 0, "CERT_NOT_FOUND", 404,
                                 0, "invalid", "none", FALSE)
             /\ nreq' = nreq + 1
             /\ UNCHANGED inflight
        ELSE /\ SetRequest(s, [NoRequest EXCEPT !.op = "verifyCertificate", !.cert = c,
                                                !.doc = certs[c]])
             /\ UNCHANGED << audit, last, nreq >>
  /\ UNCHANGED << users, certs, now >>

\* POST /api/verify/:token, from the status tests to the response; the
\* holder of the document exists, so that the save is not rejected for it
verifyCertificate_save(s) ==
  /\ Request(s).op = "verifyCertificate"
  /\ users[Request(s).doc.holder].exists
  /\ LET c == Request(s).cert
         doc == Request(s).doc
         result == verificationResult(doc)
     IN IF result \notin HISTORY_RESULTS
        THEN /\ last' = Response("verifyCertificate", 0, "none", 500,
                                 c, "error", doc.status, FALSE)
             /\ UNCHANGED << certs, audit >>
        ELSE /\ certs' = [certs EXCEPT ![c] =
                  [@ EXCEPT !.verificationHistory =
                              pushHistory(@, doc.verificationHistory, result),
                            !.checksum = Checksum(doc.title, HolderPopulated(doc.holder))]]
             /\ audit' = AuditLog_log(audit,
                  AuditEntry("certificate.verify", "info", 0, result = "valid"))
             /\ last' = Response("verifyCertificate", 0, "OK", 200,
                                 c, result, doc.status, FALSE)
  /\ SetRequest(s, NoRequest)
  /\ nreq' = nreq + 1
  /\ UNCHANGED << users, now >>

\* PUT /api/certificates/:id/revoke, up to and including Certificate.findById
revokeCertificate_findById(s, token, id, reason) ==
  /\ Request(s) = NoRequest
  /\ LET g == authorize(token, "certificate:revoke")
     IN IF ~g.ok
        THEN /\ audit' = g.log
             /\ last' = Response("revokeCertificate", g.uid, g.code, g.http,
                                 id, "none", "none", FALSE)
             /\ nreq' = nreq + 1
             /\ UNCHANGED inflight
        ELSE IF ~certs[id].exists
        THEN /\ last' = Response("revokeCertificate", g.uid, "CERT_NOT_FOUND", 404,
                                 id, "none", "none", FALSE)
             /\ nreq' = nreq + 1
             /\ UNCHANGED << inflight, audit >>
        ELSE /\ SetRequest(s, [op |-> "revokeCertificate", cert |-> id, doc |-> certs[id],
                               caller |-> g.uid, reason |-> reason])
             /\ UNCHANGED << audit, last, nreq >>
  /\ UNCHANGED << users, certs, now >>

\* PUT /api/certificates/:id/revoke, from the test of the loaded status to
\* the response
revokeCertificate_write(s) ==
  /\ Request(s).op = "revokeCertificate"
  /\ LET c == Request(s).cert
         doc == Request(s).doc
     IN IF doc.status = "revoked"
        THEN /\ last' = Response("revokeCertificate", Request(s).caller, "ALREADY_REVOKED",
                                 400, c, "none", "revoked", FALSE)
             /\ UNCHANGED << certs, audit >>
        ELSE /\ certs' = [certs EXCEPT ![c] =
                  [@ EXCEPT !.status = "revoked",
                            !.revokedAt = now,
                            !.revokedBy = Request(s).caller,
                            !.revocationReason = ReasonOrDefault(Request(s).reason),
                            !.checksum = Checksum(doc.title, HolderRef(doc.holder))]]
             /\ audit' = AuditLog_log(audit,
                  AuditEntry("certificate.revoke", "critical", Request(s).caller, TRUE))
             /\ last' = Response("revokeCertificate", Request(s).caller, "OK", 200,
                                 c, Request(s).reason, doc.status, FALSE)
  /\ SetRequest(s, NoRequest)
  /\ nreq' = nreq + 1
  /\ UNCHANGED << users, now >>

\* users 1 and 2 are super_admins, user 3 is a holder; certificate 1 is
\* signed, active and held by user 3: the only certificate
InitOverlap ==
  /\ users = [u \in UserIds |->
                IF u <= 2 THEN NewUser(u, DefaultPassword, "super_admin")
                ELSE NewUser(u, DefaultPassword, "holder")]
  /\ LET saved == PreSave(NewCertificate("seed", "active", 3, 1, NoTime), 1, HolderRef(3))
     IN certs = [c \in CertIds |->
                   IF c = 1
                   THEN [saved EXCEPT !.digitalSignature = signCertificate(saved, SIGNING_SECRET)]
                   ELSE NoCert]
  /\ audit = << >>
  /\ now = 1
  /\ inflight = [cert |-> 0, caller |-> 0, role |-> "none",
                 requests |-> [s \in Slots |-> NoRequest]]
  /\ last = NoResponse
  /\ nreq = 0
  /\ auditStore = "up"

NextOverlap ==
  \/ /\ nreq < MaxOverlapRequests
     /\ \E s \in Slots, k \in TokenChoices : verifyCertificate_findOne(s, k)
     /\ UNCHANGED auditStore
  \/ /\ \E s \in Slots : verifyCertificate_save(s)
     /\ UNCHANGED auditStore
  \/ /\ nreq < MaxOverlapRequests
     /\ \E s \in Slots, t \in ValidCredentials, c \in CertIds, r \in Reasons :
          revokeCertificate_findById(s, t, c, r)
     /\ UNCHANGED auditStore
  \/ /\ \E s \in Slots : revokeCertificate_write(s)
     /\ UNCHANGED auditStore

SpecOverlap == InitOverlap /\ [][NextOverlap]_vars

\* the number of completed verifications: each logs one certificate.verify
\* entry, and certificate 1 is the only certificate
CompletedVerifications(log) ==
  Cardinality({i \in 1..Len(log) : log[i].action = "certificate.verify"})

\* C35: verificationHistory is append-only under concurrency: when verify
\* requests for one certificate run beside each other or beside a revoke,
\* no history entry is lost or overwritten, the history only grows, and its
\* length is the number of completed verifications of the certificate.
C35_HistoryIsAppendOnly ==
  [][/\ Extends(certs[1].verificationHistory, certs'[1].verificationHistory)
     /\ Len(certs'[1].verificationHistory) = CompletedVerifications(audit')]_vars

\* two verifications loaded the certificate with an empty history; one has
\* saved its entry, the other has still to save: the stored
\* history is ahead of the document the other holds
C35_Witness ==
  /\ last.op = "verifyCertificate" /\ last.code = "OK"
  /\ Len(certs[1].verificationHistory) = 1
  /\ \E s \in Slots :
       /\ Request(s).op = "verifyCertificate"
       /\ Request(s).doc.verificationHistory = << >>

(***************************************************************************)
(* Failed logins beside each other                                         *)
(* (login: findByEmailWithPassword, then incLoginAttempts on the loaded    *)
(* document)                                                               *)
(***************************************************************************)
MaxStaleRequests == 2

\* a login between its load of the user and its update
NoLogin == [busy |-> FALSE, user |-> 0, doc |-> NoUser, password |-> ""]

Login(s) == inflight.logins[s]

SetLogin(s, request) ==
  inflight' = [inflight EXCEPT !.logins = [@ EXCEPT ![s] = request]]

\* POST /api/auth/login, up to the password check: the user is loaded and
\* the tests of the loaded document are made
login_findByEmail(s, email, password) ==
  /\ ~Login(s).busy
  /\ LET u == FindByEmail(email)
     IN IF u = 0
        THEN /\ audit' = AuditLog_log(audit, AuditEntry("auth.login_failed", "warning", 0, FALSE))
             /\ last' = Response("login", 0, "INVALID_CREDENTIALS", 401, 0, "none", "none", FALSE)
             /\ nreq' = nreq + 1
             /\ UNCHANGED inflight
        ELSE IF isLocked(users[u])
        THEN /\ audit' = AuditLog_log(audit,
                  [AuditEntry("auth.account_locked", "critical", u, FALSE)
                     EXCEPT !.performedByRole = "none"])
             /\ last' = Response("login", 0, "ACCOUNT_LOCKED", 423, u, "none", "none", FALSE)
             /\ nreq' = nreq + 1
             /\ UNCHANGED inflight
        ELSE IF ~users[u].isActive
        THEN /\ last' = Response("login", 0, "ACCOUNT_INACTIVE", 401, u, "none", "none", FALSE)
             /\ nreq' = nreq + 1
             /\ UNCHANGED << inflight, audit >>
        ELSE /\ SetLogin(s, [busy |-> TRUE, user |-> u, doc |-> users[u],
                             password |-> password])
             /\ UNCHANGED << audit, last, nreq >>
  /\ UNCHANGED << users, certs, now >>

\* POST /api/auth/login, from comparePassword to the response: updateOne
\* changes the stored document by what the loaded document says
login_update(s) ==
  /\ Login(s).busy
  /\ LET u == Login(s).user
         doc == Login(s).doc
     IN IF ~comparePassword(doc, Login(s).password)
        THEN /\ users' = [users EXCEPT ![u] = incLoginAttempts(doc, users[u])]
             /\ audit' = AuditLog_log(audit,
                  [AuditEntry("auth.login_failed", "warning", u, FALSE)
                     EXCEPT !.performedByRole = "none"])
             /\ last' = Response("login", 0, "INVALID_CREDENTIALS", 401, u, "none", "none", TRUE)
        ELSE /\ users' = [users EXCEPT ![u] = resetLoginAttempts(users[u])]
             /\ audit' = AuditLog_log(audit, AuditEntry("auth.login", "info", u, TRUE))
             /\ last' = Response("login", 0, "OK", 200, u, "tokens", "none", TRUE)
  /\ SetLogin(s, NoLogin)
  /\ nreq' = nreq + 1
  /\ UNCHANGED << certs, now >>

\* user 1 is a super_admin; user 2 is a holder with up to four failed
\* logins behind them and no lock
InitStale ==
  /\ \E k \in 0..(MAX_ATTEMPTS - 1) :
       users = [u \in UserIds |->
                  IF u = 1 THEN NewUser(1, DefaultPassword, "super_admin")
                  ELSE IF u = 2
                  THEN [NewUser(2, DefaultPassword, "holder") EXCEPT !.loginAttempts = k]
                  ELSE NoUser]
  /\ certs = [c \in CertIds |-> NoCert]
  /\ audit = << >>
  /\ now = 1
  /\ inflight = [cert |-> 0, caller |-> 0, role |-> "none",
                 logins |-> [s \in Slots |-> NoLogin]]
  /\ last = NoResponse
  /\ nreq = 0
  /\ auditStore = "up"

NextStale ==
  \/ /\ nreq < MaxStaleRequests
     /\ \E s \in Slots, e \in Emails, p \in Passwords : login_findByEmail(s, e, p)
     /\ UNCHANGED auditStore
  \/ /\ \E s \in Slots : login_update(s)
     /\ UNCHANGED auditStore
  \/ /\ Tick
     /\ UNCHANGED auditStore

SpecStale == InitStale /\ [][NextStale]_vars

\* C36: when failed logins for one account interleave, the account is still
\* locked once five failures have been recorded: loginAttempts >= 5 implies
\* that lockUntil is set, and loginAttempts never exceeds 5.
C36_LockedAtFiveUnderInterleaving ==
  \A u \in UserIds :
    users[u].exists =>
      /\ users[u].loginAttempts >= MAX_ATTEMPTS => users[u].lockUntil # NoTime
      /\ users[u].loginAttempts <= MAX_ATTEMPTS

\* what does hold: a failed login that loaded the user at four failures or
\* more sets the lock, and every failed login adds one to the stored counter
C36_LockFollowsTheLoadedCounter ==
  [][\A s \in Slots :
       (Login(s).busy /\ ~inflight'.logins[s].busy
          /\ ~comparePassword(Login(s).doc, Login(s).password)) =>
         LET u == Login(s).user
         IN /\ users'[u].loginAttempts = users[u].loginAttempts + 1
            /\ Login(s).doc.loginAttempts + 1 >= MAX_ATTEMPTS
                 => users'[u].lockUntil # NoTime]_vars

\* two failed logins loaded the account at three failures: both have
\* counted, the stored counter is five and no lock is set
C36_Witness ==
  /\ last.op = "login" /\ last.code = "INVALID_CREDENTIALS" /\ last.target = 2
  /\ nreq = 2 /\ Len(audit) = 2
  /\ users[2].loginAttempts = MAX_ATTEMPTS
  /\ users[2].lockUntil = NoTime
  /\ ~isLocked(users[2])

(***************************************************************************)
(* Revoked as a final status                                               *)
(***************************************************************************)
\* certificate c is stored as revoked
Revoked(c) == certs[c].exists /\ certs[c].status = "revoked"

\* the step keeps the status and the revocation fields of certificate c
RevocationKept(c) ==
  /\ certs'[c].exists
  /\ certs'[c].status = "revoked"
  /\ certs'[c].revokedAt = certs[c].revokedAt
  /\ certs'[c].revokedBy = certs[c].revokedBy
  /\ certs'[c].revocationReason = certs[c].revocationReason

\* the step is the second save of the create operation on certificate c
SigningSaveOf(c) == inflight.cert = c /\ inflight'.cert = 0

\* C37: revoked is absorbing: once a certificate's stored status is revoked,
\* no later or concurrently running operation (another revoke, the save made
\* by verify, the auto-expire sweep, the second save of the create operation)
\* changes its status or its revokedAt, revokedBy and revocationReason.
C37_RevokedIsAbsorbing ==
  [][\A c \in CertIds : Revoked(c) => RevocationKept(c)]_vars

\* what does hold: every step but the second save of create keeps a revoked
\* certificate revoked, and the second save keeps the revocation fields
C37_RevokedKeptButByTheSigningSave ==
  [][\A c \in CertIds :
       Revoked(c) =>
         /\ ~SigningSaveOf(c) => RevocationKept(c)
         /\ certs'[c].revokedAt = certs[c].revokedAt
         /\ certs'[c].revokedBy = certs[c].revokedBy
         /\ certs'[c].revocationReason = certs[c].revocationReason]_vars

\* a certificate revoked between the two saves of create is active again
\* after the second save, with its revocation fields still set
C37_Witness ==
  /\ last.op = "createCertificate" /\ last.code = "OK" /\ last.target \in CertIds
  /\ certs[last.target].status = "active"
  /\ certs[last.target].revokedAt # NoTime
  /\ certs[last.target].revokedBy # 0
  /\ \E i \in 1..Len(audit) : audit[i].action = "certificate.revoke"

(***************************************************************************)
(* Revokes beside each other                                               *)
(***************************************************************************)
\* the certificate.revoke entries of the log; certificate 1 is the only
\* certificate of InitOverlap
RevokeEntries(log) == {i \in 1..Len(log) : log[i].action = "certificate.revoke"}

\* the step is the answer of the revoke request in slot s
RevokeAnswered(s) ==
  /\ Request(s).op = "revokeCertificate"
  /\ inflight'.requests[s].op = "none"

\* C38: when two revoke requests for the same non-revoked certificate run
\* concurrently, at most one succeeds and the other fails with
\* ALREADY_REVOKED: the certificate has at most one certificate.revoke audit
\* entry, and a revoke that succeeds finds the certificate not yet revoked,
\* so that revokedBy and revocationReason are those of the one request that
\* succeeded.
C38_AtMostOneRevokeSucceeds ==
  [][\A s \in Slots :
       RevokeAnswered(s) =>
         /\ Cardinality(RevokeEntries(audit')) <= 1
         /\ last'.code = "OK" => certs[Request(s).cert].status # "revoked"
         /\ certs[Request(s).cert].status = "revoked" =>
              /\ last'.code = "ALREADY_REVOKED"
              /\ certs'[Request(s).cert].revokedBy = certs[Request(s).cert].revokedBy]_vars

\* what does hold: a revoke succeeds exactly when the document it loaded
\* was not revoked, and then the stored fields are its own
C38_RevokeFollowsTheLoadedStatus ==
  [][\A s \in Slots :
       RevokeAnswered(s) =>
         /\ last'.code = "OK" <=> Request(s).doc.status # "revoked"
         /\ last'.code = "ALREADY_REVOKED" <=> Request(s).doc.status = "revoked"
         /\ last'.code = "OK" =>
              /\ certs'[Request(s).cert].revokedBy = Request(s).caller
              /\ Len(audit') = Len(audit) + 1]_vars

\* two revokes that both loaded the active certificate have both been
\* answered 200: two certificate.revoke entries by two callers, and the
\* stored revokedBy is the second writer's
C38_Witness ==
  /\ last.op = "revokeCertificate" /\ last.code = "OK" /\ last.prev = "active"
  /\ Cardinality(RevokeEntries(audit)) = 2
  /\ audit[1].performedBy # audit[2].performedBy
  /\ certs[1].status = "revoked"
  /\ certs[1].revokedBy = last.caller
  /\ certs[1].revokedBy = audit[2].performedBy

(***************************************************************************)
(* The role of a super_admin                                               *)
(***************************************************************************)
\* the step takes the super_admin role from user u
LosesSuperAdmin(u) ==
  /\ users[u].exists /\ users[u].role = "super_admin"
  /\ users'[u].exists /\ users'[u].role # "super_admin"

\* C39: a caller whose role is not super_admin can never change the role of
\* a user whose current role is super_admin: a super_admin loses that role
\* only through an assignRole request made by a super_admin.
C39_SuperAdminDemotedOnlyBySuperAdmin ==
  [][\A u \in UserIds :
       LosesSuperAdmin(u) =>
         /\ last'.op = "assignRole" /\ last'.code = "OK" /\ last'.target = u
         /\ users[last'.caller].role = "super_admin"]_vars

\* what does hold: a role changes only through a successful assignRole by a
\* caller who holds user:assign_role, and nobody but a super_admin gives the
\* role admin or super_admin
C39_OnlyPrivilegedRolesAreGuarded ==
  [][\A u \in UserIds :
       (users[u].exists /\ users'[u].exists /\ users'[u].role # users[u].role) =>
         /\ last'.op = "assignRole" /\ last'.code = "OK" /\ last'.target = u
         /\ hasPermission(users[last'.caller].role, "user:assign_role")
         /\ users'[u].role \in {"admin", "super_admin"}
              => users[last'.caller].role = "super_admin"]_vars

\* an admin has given a super_admin a role below admin
C39_Witness ==
  /\ last.op = "assignRole" /\ last.code = "OK" /\ last.http = 200
  /\ last.prev = "super_admin"
  /\ last.caller # last.target
  /\ users[last.caller].role = "admin"
  /\ users[last.target].role \notin {"admin", "super_admin"}

(***************************************************************************)
(* A create request that ends in an error                                  *)
(* (createCertificate: two saves in one try block, one catch)              *)
(***************************************************************************)
MaxCreateRequests == 3

\* POST /api/certificates, from the first save on, when the second
\* certificate.save() rejects: the catch block answers 500 CREATE_FAILED
createCertificate_signRejected ==
  /\ inflight.cert # 0
  /\ hasPermission(inflight.role, "certificate:sign")
  /\ last' = [Response("createCertificate", inflight.caller, "CREATE_FAILED", 500,
                       0, "none", "none", FALSE)
                EXCEPT !.role = inflight.role]
  /\ inflight' = NoInflight
  /\ nreq' = nreq + 1
  /\ UNCHANGED << users, certs, audit, now >>

\* POST /api/certificates when the first certificate.save() rejects
createCertificate_saveRejected(token, holderEmail, expiresAt) ==
  LET g == authorize(token, "certificate:create")
  IN /\ g.ok /\ holderEmail # 0 /\ FindByEmail(holderEmail) # 0
     /\ last' = Response("createCertificate", g.uid, "CREATE_FAILED", 500,
                         0, "none", "none", FALSE)
     /\ nreq' = nreq + 1
     /\ UNCHANGED << users, certs, audit, now, inflight >>

NextCreate ==
  \/ /\ inflight.cert = 0 /\ nreq < MaxCreateRequests
     /\ \E t \in ValidCredentials, e \in {0, 2, MaxUsers}, x \in ExpiryChoices :
          createCertificate(t, e, x)
     /\ UNCHANGED auditStore
  \/ /\ inflight.cert = 0 /\ nreq < MaxCreateRequests
     /\ \E t \in ValidCredentials, e \in {0, 2, MaxUsers}, x \in ExpiryChoices :
          createCertificate_saveRejected(t, e, x)
     /\ UNCHANGED auditStore
  \/ /\ createCertificate_sign
     /\ UNCHANGED auditStore
  \/ /\ createCertificate_signRejected
     /\ UNCHANGED auditStore
  \/ /\ Tick
     /\ UNCHANGED auditStore

SpecCreate == InitCert /\ [][NextCreate]_vars

\* the certificates the create operation has stored
Created(store) == {c \in CertIds : store[c].exists /\ store[c].origin = "create"}

\* the certificate.create entries of the log
CreateEntries(log) == {i \in 1..Len(log) : log[i].action = "certificate.create"}

\* the step answers a create request with one of its error codes
CreateFails ==
  /\ nreq' = nreq + 1
  /\ last'.op = "createCertificate"
  /\ last'.code \in {"HOLDER_NOT_FOUND", "HOLDER_REQUIRED", "CREATE_FAILED"}

\* C40: a create request that ends in an error response (HOLDER_NOT_FOUND,
\* HOLDER_REQUIRED, CREATE_FAILED) leaves no certificate persisted: when the
\* first save succeeds and the signing save fails, no unsigned pending
\* certificate remains in the store, and every persisted certificate has a
\* certificate.create audit entry.
C40_FailedCreateLeavesNothing ==
  [][CreateFails =>
       /\ inflight.cert # 0 => ~certs'[inflight.cert].exists
       /\ Created(certs') \subseteq Created(certs)
       /\ Cardinality(Created(certs')) = Cardinality(CreateEntries(audit'))]_vars

\* what does hold: an error response before the first save leaves the store
\* as it was, and a create that answers 201 has stored one certificate and
\* logged one certificate.create entry
C40_NothingPersistedBeforeTheFirstSave ==
  [][/\ (CreateFails /\ inflight.cert = 0) => (certs' = certs /\ audit' = audit)
     /\ (last'.op = "createCertificate" /\ last'.code = "OK" /\ nreq' = nreq + 1) =>
          /\ inflight.cert \in Created(certs')
          /\ Len(audit') = Len(audit) + 1
          /\ audit'[Len(audit')].action = "certificate.create"]_vars

\* the signing save was rejected: the answer is CREATE_FAILED, and the
\* certificate of the first save is in the store, pending, unsigned and
\* without a certificate.create entry
C40_Witness ==
  /\ last.op = "createCertificate" /\ last.code = "CREATE_FAILED" /\ last.http = 500
  /\ inflight.cert = 0
  /\ \E c \in Created(certs) :
       /\ certs[c].status = "pending"
       /\ certs[c].digitalSignature = NoSignature
  /\ CreateEntries(audit) = {}

====
